---- MODULE Spec2Model ----
(***************************************************************************)
(* Pliable: the interactive edit engine (src/src).  The Document and its   *)
(* undo/redo history, the viewer's selection and commit handlers and the   *)
(* Qt mouse handlers of the interaction handler.                           *)
(*                                                                         *)
(* A shape (TopoDS_Shape) is a record [h, g]: h is the identity of the     *)
(* object, g the geometry it carries.  BRepBuilderAPI_Copy makes a new     *)
(* object with the same geometry; a kernel operation that succeeds makes   *)
(* a new object with a new geometry.  Names are numbers; a handler takes   *)
(* unused ones and every state is kept in a canonical naming (Canon).      *)
(* Lengths are integers in units of 0.001 mm.                              *)
(***************************************************************************)
EXTENDS Integers, Sequences, FiniteSets, TLC

VARIABLES
    document,      \* Document: shape, cached_com, undo_stack, redo_stack
    viewer,        \* PliableViewer: selected_shapes, highlighted_ais_objects,
                   \*   preview_shape_ais, original_shape, ais_shape
    interaction,   \* InteractionHandler: is_dragging, drag_start_x/y, last_preview_offset
    context,       \* display.Context: what the viewport shows
    left_down,     \* Qt: the left mouse button is held
    call,          \* the handler run by the last step, its result, what it reported
    \* records kept of the Document on its own (DocSpec):
    before,        \* geometry of the Document before its last call
    run_pre,       \* geometries current before each commit of the present run of commits
    run_undos,     \* undo calls made since that run of commits
    \* the threads of offset_face's refinement pass (RefineSpec):
    refinement     \* where the interactive thread is, its worker, the workers left behind

vars == <<document, viewer, interaction, context, left_down, call, before, run_pre, run_undos,
          refinement>>

----------------------------------------------------------------------------
(* Bounds of the exploration *)

\* longest run of consecutive commits that run_pre remembers
MaxRun == 21

\* objects (and geometries) one handler creates at most: the history copy, the
\* boolean or fillet result, the refined result
NewMax == 3

\* sub-shapes of one type a pick can name: 0..MaxSub
MaxSub == 0

\* longest selection explored
MaxSel == 2

\* history entries (undo and redo together) up to which commits are explored
MaxDepth == 1

(* Program constants *)

max_history == 20

\* 1 mm in the model's length unit
Unit == 1000

\* abs(distance) < 0.01 (geometry.offset_face)
push_pull_min == 10

\* abs(radius) < 0.5 (viewer.py)
fillet_min == 500

\* preview materiality: > 1.0 for push/pull, > 0.5 for fillet/chamfer
preview_step_push_pull == 1000
preview_step_fillet == 500

\* delta_y > 3 (pixels)
drag_threshold == 3

----------------------------------------------------------------------------
(* Values *)

NoShape == [h |-> -1, g |-> -1]
NoCom == -1
NoPos == -1
NoOffset == -1000000
NoVal == [shape |-> -1, undo_stack |-> <<>>, redo_stack |-> <<>>]

Front(s) == SubSeq(s, 1, Len(s) - 1)
Last(s) == s[Len(s)]
Range(s) == {s[i] : i \in DOMAIN s}

\* the geometry of a Document: what two Documents are compared by
Val(d) ==
    [shape |-> d.shape.g,
     undo_stack |-> [i \in DOMAIN d.undo_stack |-> d.undo_stack[i].g],
     redo_stack |-> [i \in DOMAIN d.redo_stack |-> d.redo_stack[i].g]]

----------------------------------------------------------------------------
(* Geometry kernel as the Document uses it *)

\* the copy with a fault seeded: the shape itself is returned
BRepBuilderAPI_Copy_alias(shape, nh) == shape

BRepBuilderAPI_Copy(shape, nh) == [h |-> nh, g |-> shape.g]

\* geometry.get_center_of_mass: the centre of mass of the geometry, None when
\* the kernel raises
get_center_of_mass(shape, ok) == IF ok THEN shape.g ELSE NoCom

----------------------------------------------------------------------------
(* Document operations with a fault seeded: the properties below are tried *)
(* against them in place of the operations that follow                     *)

\* keeps the redo stack
save_to_history_keeps_redo(d, nh) ==
    LET appended == Append(d.undo_stack, BRepBuilderAPI_Copy(d.shape, nh))
    IN [d EXCEPT !.undo_stack = IF Len(appended) > max_history THEN Tail(appended)
                                ELSE appended]

\* evicts the newest entry
save_to_history_evicts_newest(d, nh) ==
    LET appended == Append(d.undo_stack, BRepBuilderAPI_Copy(d.shape, nh))
    IN [d EXCEPT !.undo_stack = IF Len(appended) > max_history THEN Front(appended)
                                ELSE appended,
                 !.redo_stack = <<>>]

\* saves the current shape for redo before it looks at the undo stack
undo_saves_first(d, nh) ==
    LET saved == Append(d.redo_stack, BRepBuilderAPI_Copy(d.shape, nh))
    IN IF Len(d.undo_stack) = 0
       THEN [doc |-> [d EXCEPT !.redo_stack = saved], ret |-> FALSE]
       ELSE [doc |-> [shape |-> Last(d.undo_stack), cached_com |-> NoCom,
                      undo_stack |-> Front(d.undo_stack), redo_stack |-> saved],
             ret |-> TRUE]

\* restores the oldest entry
undo_oldest(d, nh) ==
    IF Len(d.undo_stack) = 0
    THEN [doc |-> d, ret |-> FALSE]
    ELSE [doc |-> [shape |-> Head(d.undo_stack), cached_com |-> NoCom,
                   undo_stack |-> Tail(d.undo_stack),
                   redo_stack |-> Append(d.redo_stack, BRepBuilderAPI_Copy(d.shape, nh))],
          ret |-> TRUE]

\* does not save the current shape for undo
redo_drops_current(d, nh) ==
    IF Len(d.redo_stack) = 0
    THEN [doc |-> d, ret |-> FALSE]
    ELSE [doc |-> [shape |-> Last(d.redo_stack), cached_com |-> NoCom,
                   undo_stack |-> d.undo_stack, redo_stack |-> Front(d.redo_stack)],
          ret |-> TRUE]

----------------------------------------------------------------------------
(* Document *)

DocumentInit ==
    [shape |-> [h |-> 0, g |-> 0], cached_com |-> NoCom,
     undo_stack |-> <<>>, redo_stack |-> <<>>]

\* restores the newest snapshot and leaves it on the undo stack
undo_keeps_entry(d, nh) ==
    IF Len(d.undo_stack) = 0
    THEN [doc |-> d, ret |-> FALSE]
    ELSE [doc |-> [d EXCEPT !.shape = BRepBuilderAPI_Copy(Last(d.undo_stack), nh + 1),
                            !.cached_com = NoCom,
                            !.redo_stack = Append(@, BRepBuilderAPI_Copy(d.shape, nh))],
          ret |-> TRUE]

\* restores the shape and keeps the cached centre of mass
undo_keeps_com(d, nh) ==
    IF Len(d.undo_stack) = 0
    THEN [doc |-> d, ret |-> FALSE]
    ELSE [doc |-> [d EXCEPT !.shape = Last(d.undo_stack),
                            !.undo_stack = Front(d.undo_stack),
                            !.redo_stack = Append(@, BRepBuilderAPI_Copy(d.shape, nh))],
          ret |-> TRUE]

save_to_history(d, nh) ==
    LET shape_copy == BRepBuilderAPI_Copy(d.shape, nh)
        appended == Append(d.undo_stack, shape_copy)
        limited == IF Len(appended) > max_history THEN Tail(appended) ELSE appended
    IN [d EXCEPT !.undo_stack = limited, !.redo_stack = <<>>]

can_undo(d) == Len(d.undo_stack) > 0

can_redo(d) == Len(d.redo_stack) > 0

undo(d, nh) ==
    IF ~can_undo(d)
    THEN [doc |-> d, ret |-> FALSE]
    ELSE LET current_copy == BRepBuilderAPI_Copy(d.shape, nh)
         IN [doc |-> [shape |-> Last(d.undo_stack),
                      cached_com |-> NoCom,
                      undo_stack |-> Front(d.undo_stack),
                      redo_stack |-> Append(d.redo_stack, current_copy)],
             ret |-> TRUE]

redo(d, nh) ==
    IF ~can_redo(d)
    THEN [doc |-> d, ret |-> FALSE]
    ELSE LET current_copy == BRepBuilderAPI_Copy(d.shape, nh)
         IN [doc |-> [shape |-> Last(d.redo_stack),
                      cached_com |-> NoCom,
                      undo_stack |-> Append(d.undo_stack, current_copy),
                      redo_stack |-> Front(d.redo_stack)],
             ret |-> TRUE]

clear_history(d) == [d EXCEPT !.undo_stack = <<>>, !.redo_stack = <<>>]

set_shape(d, shape) == [d EXCEPT !.shape = shape, !.cached_com = NoCom]

update_center_of_mass(d, ok) == [d EXCEPT !.cached_com = get_center_of_mass(d.shape, ok)]

doc_get_center_of_mass(d, ok) ==
    IF d.cached_com = NoCom THEN update_center_of_mass(d, ok) ELSE d

----------------------------------------------------------------------------
(* Naming the objects a handler creates *)

RECURSIVE SortedSeq(_)
SortedSeq(S) ==
    IF S = {} THEN <<>>
    ELSE LET m == CHOOSE x \in S : \A y \in S : x <= y
         IN <<m>> \o SortedSeq(S \ {m})

Shapes(stack, f) == [i \in DOMAIN stack |-> stack[i][f]]

\* every object identity a reference of the program state carries, in the
\* order the state is read: history, current shape, redo, viewer, viewport
HandleRefs(d, v, c) ==
    Shapes(d.undo_stack, "h") \o <<d.shape.h>> \o Shapes(d.redo_stack, "h")
        \o <<v.original_shape.h, v.ais_shape>> \o SortedSeq(c.shapes)
        \o [i \in DOMAIN v.selected_shapes |-> v.selected_shapes[i].of]
        \o [i \in DOMAIN v.highlighted_ais_objects |-> v.highlighted_ais_objects[i].of]

\* every geometry the program state, or a record kept of it, carries
GeomRefs(d, v, bf, rp) ==
    Shapes(d.undo_stack, "g") \o <<d.shape.g>> \o Shapes(d.redo_stack, "g")
        \o <<v.original_shape.g, d.cached_com>>
        \o rp \o bf.undo_stack \o <<bf.shape>> \o bf.redo_stack

\* names a handler gives the objects it creates: numbers above all in use
FreshNames(refs) ==
    LET top == CHOOSE m \in Range(refs) \cup {-1} : \A x \in Range(refs) \cup {-1} : x <= m
    IN [i \in 1..NewMax |-> top + i]

RECURSIVE FirstRefs(_, _)
\* the numbers of refs without repetition, in the order of their first occurrence
FirstRefs(refs, seen) ==
    IF refs = <<>> THEN <<>>
    ELSE IF Head(refs) < 0 \/ Head(refs) \in seen THEN FirstRefs(Tail(refs), seen)
    ELSE <<Head(refs)>> \o FirstRefs(Tail(refs), seen \cup {Head(refs)})

\* names given afresh in the order of refs: object identities and geometries
\* are opaque, only equality is observable
Renaming(refs) ==
    LET first == FirstRefs(refs, {})
    IN [x \in Range(first) \cup {-1} |->
           IF x < 0 THEN x ELSE (CHOOSE i \in DOMAIN first : first[i] = x) - 1]

RenameShape(s, hmap, gmap) == [h |-> hmap[s.h], g |-> gmap[s.g]]

RenamePick(p, hmap) == [p EXCEPT !.of = hmap[@]]

\* the state with every object and geometry renamed by its rank
Canon(d, v, c, bf, rp) ==
    LET hrefs == HandleRefs(d, v, c)
        grefs == GeomRefs(d, v, bf, rp)
        hmap == Renaming(hrefs)
        gmap == Renaming(grefs)
        H(x) == hmap[x]
        G(x) == gmap[x]
    IN [document |->
            [shape |-> RenameShape(d.shape, hmap, gmap),
             cached_com |-> G(d.cached_com),
             undo_stack |-> [i \in DOMAIN d.undo_stack |-> RenameShape(d.undo_stack[i], hmap, gmap)],
             redo_stack |-> [i \in DOMAIN d.redo_stack |-> RenameShape(d.redo_stack[i], hmap, gmap)]],
        viewer |->
            [v EXCEPT !.original_shape = RenameShape(@, hmap, gmap),
                      !.ais_shape = H(@),
                      !.selected_shapes = [i \in DOMAIN @ |-> RenamePick(@[i], hmap)],
                      !.highlighted_ais_objects = [i \in DOMAIN @ |-> RenamePick(@[i], hmap)]],
        context |->
            [c EXCEPT !.shapes = {H(x) : x \in @},
                      !.active = {<<H(a[1]), a[2]>> : a \in @}],
        before |->
            [shape |-> G(bf.shape),
             undo_stack |-> [i \in DOMAIN bf.undo_stack |-> G(bf.undo_stack[i])],
             redo_stack |-> [i \in DOMAIN bf.redo_stack |-> G(bf.redo_stack[i])]],
        run_pre |-> [i \in DOMAIN rp |-> G(rp[i])]]

----------------------------------------------------------------------------
(* Sub-shapes, selection *)

\* TopAbs shape types as the handlers compare them
TopAbs_SOLID == 2
TopAbs_FACE == 4
TopAbs_EDGE == 6
TopAbs_VERTEX == 7

PickTypes == {TopAbs_SOLID, TopAbs_FACE, TopAbs_EDGE, TopAbs_VERTEX}

\* what one pick can deliver: sub-shapes, numbered 0..MaxSub per type, of a
\* shape the viewport shows
Picked(c) == [type : PickTypes, id : 0..MaxSub, of : {h \in c.shapes : h >= 0}]

\* the lists one on_select call can receive: none, one or two picked shapes
PickLists(c) ==
    {<<>>} \cup {<<p>> : p \in Picked(c)} \cup {<<p, q>> : p \in Picked(c), q \in Picked(c)}

has_type(shapes, t) == \E i \in DOMAIN shapes : shapes[i].type = t

\* the first face of the selection (the for ... break loops)
first_face(shapes) ==
    shapes[CHOOSE i \in DOMAIN shapes :
               shapes[i].type = TopAbs_FACE
               /\ \A j \in 1..(i - 1) : shapes[j].type # TopAbs_FACE]

SelectSeq2(shapes, t) ==
    LET RECURSIVE Keep(_)
        Keep(k) == IF k > Len(shapes) THEN <<>>
                   ELSE IF shapes[k].type = t THEN <<shapes[k]>> \o Keep(k + 1)
                   ELSE Keep(k + 1)
    IN Keep(1)

\* the loop over the selected edges with a fault seeded: the first edge only
builder_Add_first_edge(radius, edges) ==
    IF edges = <<>> THEN <<>> ELSE <<[radius |-> radius, edge |-> edges[1]]>>

\* for edge in selected_edges: builder.Add(radius, edge): the calls made
builder_Add(radius, edges) ==
    [k \in DOMAIN edges |-> [radius |-> radius, edge |-> edges[k]]]

NoPreview == [kind |-> "None", value |-> 0]

ViewerInit ==
    [selected_shapes |-> <<>>, highlighted_ais_objects |-> <<>>,
     preview_shape_ais |-> NoPreview, original_shape |-> NoShape, ais_shape |-> 0]

\* the context after PliableViewer.__init__: the cube shown, modes 1, 2, 4 active
ContextInit == [shapes |-> {0}, active |-> {<<0, 1>>, <<0, 2>>, <<0, 4>>},
                highlights |-> 0, previews |-> 0]

\* no commit under way, no refinement thread alive
NoWorker == [state |-> "none", cell |-> "None", exc |-> FALSE]
RefinementInit == [main |-> "idle", worker |-> NoWorker, started |-> 0, joined |-> 0,
                   abandoned |-> <<>>]

InteractionInit ==
    [is_dragging |-> FALSE, drag_start_x |-> NoPos, drag_start_y |-> NoPos,
     last_preview_offset |-> NoOffset]

\* Context.Erase / Context.Remove of one highlight or preview object
EraseHighlights(c, n) == [c EXCEPT !.highlights = IF @ >= n THEN @ - n ELSE 0]
\* the erasure with a fault seeded: the preview object stays displayed
ErasePreview_leaves_it(c, p) == c
ErasePreview(c, p) == IF p = NoPreview THEN c
                      ELSE [c EXCEPT !.previews = IF @ >= 1 THEN @ - 1 ELSE 0]
RemoveShape(c, h) ==
    [c EXCEPT !.shapes = @ \ {h}, !.active = {a \in @ : a[1] # h}]
RemoveAll(c) == [shapes |-> {}, active |-> {}, highlights |-> 0, previews |-> 0]
\* DisplayShape of the main shape followed by Activate 1, 2, 4
DisplayAndActivate(c, h) ==
    [c EXCEPT !.shapes = @ \cup {h},
              !.active = @ \cup {<<h, 1>>, <<h, 2>>, <<h, 4>>}]

shape_name(t) ==
    IF t = TopAbs_FACE THEN "Face" ELSE IF t = TopAbs_EDGE THEN "Edge" ELSE "Vertex"

\* PliableViewer._update_operation_status: the messages it shows
update_operation_status(shapes) ==
    LET has_faces == has_type(shapes, TopAbs_FACE)
        has_edges == has_type(shapes, TopAbs_EDGE)
        has_vertices == has_type(shapes, TopAbs_VERTEX)
        count(t) == Len(SelectSeq2(shapes, t))
    IN IF has_faces /\ (has_edges \/ has_vertices)
       THEN <<"Mixed selection - select only faces OR only edges">>
       ELSE IF has_faces
       THEN IF count(TopAbs_FACE) = 1
            THEN <<"Face selected - Shift+Drag to push/pull">>
            ELSE <<"faces selected - Shift+Drag to push/pull">>
       ELSE IF has_edges
       THEN IF count(TopAbs_EDGE) = 1
            THEN <<"Edge selected - Shift+Drag for fillet/chamfer">>
            ELSE <<"edges selected - Shift+Drag for fillet/chamfer">>
       ELSE IF has_vertices
       THEN IF count(TopAbs_VERTEX) = 1
            THEN <<"Vertex selected - operations not yet supported">>
            ELSE <<"vertices selected - operations not yet supported">>
       ELSE <<>>

\* the filter with a fault seeded: shapes of every type are taken
processed_type_any(shape_type) == shape_type \in PickTypes

\* on_select: "if shape_type not in [4, 6, 7]: continue"
processed_type(shape_type) == shape_type \in {TopAbs_FACE, TopAbs_EDGE, TopAbs_VERTEX}

\* PliableViewer.on_select
on_select(d, v, c, picks, ctrl_held) ==
    LET c1 == ErasePreview(c, v.preview_shape_ais)
        kept == IF ctrl_held THEN v.selected_shapes ELSE <<>>
        kept_hl == IF ctrl_held THEN v.highlighted_ais_objects ELSE <<>>
        c2 == IF ctrl_held THEN c1 ELSE EraseHighlights(c1, Len(v.highlighted_ais_objects))
        RECURSIVE Process(_, _)
        \* the loop over the picked shapes: st = [sel, hl, orig, msgs]
        Process(k, st) ==
            IF k > Len(picks) THEN st
            ELSE IF ~processed_type(picks[k].type)
            THEN Process(k + 1, st)
            ELSE LET sel == Append(st.sel, picks[k])
                 IN Process(k + 1,
                        [sel |-> sel,
                         hl |-> Append(st.hl, picks[k]),
                         orig |-> IF Len(sel) = 1 THEN d.shape ELSE st.orig,
                         msgs |-> Append(st.msgs,
                                    IF Len(sel) = 1
                                    THEN shape_name(picks[k].type) \o " selected"
                                    ELSE shape_name(picks[k].type) \o " selected (items total)")])
        done == Process(1, [sel |-> kept, hl |-> kept_hl, orig |-> v.original_shape,
                            msgs |-> <<>>])
    IN [viewer |-> [v EXCEPT !.selected_shapes = done.sel,
                             !.highlighted_ais_objects = done.hl,
                             !.preview_shape_ais = NoPreview,
                             !.original_shape = done.orig],
        context |-> [c2 EXCEPT !.highlights = @ + (Len(done.hl) - Len(kept_hl))],
        msgs |-> done.msgs \o (IF Len(done.sel) > 0
                               THEN update_operation_status(done.sel) ELSE <<>>)]

----------------------------------------------------------------------------
(* InteractionHandler.on_mouse_press *)

\* with a fault seeded: arms a drag on any selection that is not empty
on_mouse_press_any_selection(v, i, left, shift, x, y) ==
    IF left /\ shift /\ v.selected_shapes # <<>>
    THEN [interaction |-> [i EXCEPT !.drag_start_x = x, !.drag_start_y = y],
          msgs |-> <<IF has_type(v.selected_shapes, TopAbs_FACE)
                     THEN "Push/pull drag started" ELSE "Fillet/chamfer drag started">>]
    ELSE [interaction |-> i,
          msgs |-> IF left /\ shift THEN <<"No selection - select a face or edge first">>
                   ELSE <<>>]

on_mouse_press(v, i, left, shift, x, y) ==
    IF left /\ shift
    THEN LET has_faces == has_type(v.selected_shapes, TopAbs_FACE)
             has_edges == has_type(v.selected_shapes, TopAbs_EDGE)
             has_vertices == has_type(v.selected_shapes, TopAbs_VERTEX)
         IN IF v.selected_shapes = <<>>
            THEN [interaction |-> i,
                  msgs |-> <<"No selection - select a face or edge first">>]
            ELSE IF has_faces /\ (has_edges \/ has_vertices)
            THEN [interaction |-> i,
                  msgs |-> <<"Mixed selection - select only faces OR only edges">>]
            ELSE IF has_vertices
            THEN [interaction |-> i,
                  msgs |-> <<"Vertex operations not yet supported">>]
            ELSE IF has_faces
            THEN [interaction |-> [i EXCEPT !.drag_start_x = x, !.drag_start_y = y],
                  msgs |-> <<"Push/pull drag started">>]
            ELSE IF has_edges
            THEN [interaction |-> [i EXCEPT !.drag_start_x = x, !.drag_start_y = y],
                  msgs |-> <<"Fillet/chamfer drag started">>]
            ELSE [interaction |-> i, msgs |-> <<>>]
    ELSE [interaction |-> i, msgs |-> <<>>]

----------------------------------------------------------------------------
(* Drag-to-parameter mapping (geometry.py) *)

Abs(n) == IF n < 0 THEN -n ELSE n

Dot(a, b) == a[1] * b[1] + a[2] * b[2] + a[3] * b[3]

Crossed(a, b) ==
    <<a[2] * b[3] - a[3] * b[2], a[3] * b[1] - a[1] * b[3], a[1] * b[2] - a[2] * b[1]>>

\* floor of the square root (of a number below 2^31)
ISqrt(n) ==
    LET RECURSIVE Search(_, _)
        Search(lo, hi) ==
            IF lo >= hi THEN lo
            ELSE LET mid == (lo + hi + 1) \div 2
                 IN IF mid * mid <= n THEN Search(mid, hi) ELSE Search(lo, mid - 1)
    IN Search(0, IF n > 46340 THEN 46340 ELSE n)

\* the camera and window of display.View: unit axis vectors, positions in mm,
\* scale in pixels per mm, and where it projects the centre of mass
View ==
    [eye |-> <<50, 500, 1000>>, direction |-> <<0, 0, -1>>, up |-> <<0, 1, 0>>,
     scale |-> 1, screen_height |-> 600, com_screen |-> <<0, 2>>]

\* get_face_center_and_normal: the kernel's answer for the faces of the solid (a
\* cube of 100 mm): centroid and outward unit normal of the top (0), right (2),
\* left (3), front (4), back (5) and bottom (any other id) face
get_face_center_and_normal(face) ==
    IF face.id = 0 THEN [center |-> <<50, 100, 50>>, normal |-> <<0, 1, 0>>]
    ELSE IF face.id = 2 THEN [center |-> <<100, 50, 50>>, normal |-> <<1, 0, 0>>]
    ELSE IF face.id = 3 THEN [center |-> <<0, 50, 50>>, normal |-> <<-1, 0, 0>>]
    ELSE IF face.id = 4 THEN [center |-> <<50, 50, 100>>, normal |-> <<0, 0, 1>>]
    ELSE IF face.id = 5 THEN [center |-> <<50, 50, 0>>, normal |-> <<0, 0, -1>>]
    ELSE [center |-> <<50, 0, 50>>, normal |-> <<0, -1, 0>>]

\* (screen_height / scale) / screen_height, in 0.001 mm per pixel
mm_per_pixel(view) == ((view.screen_height * Unit) \div view.scale) \div view.screen_height

\* the cameras of the standard views: display.View_Front (View), View_Top and
\* View_Right, the top view zoomed to 2 pixels per mm
Views ==
    [front |-> View,
     top |-> [eye |-> <<50, 1000, 50>>, direction |-> <<0, -1, 0>>, up |-> <<0, 0, -1>>,
              scale |-> 2, screen_height |-> 600, com_screen |-> <<2, 0>>],
     right |-> [eye |-> <<1000, 50, 50>>, direction |-> <<-1, 0, 0>>, up |-> <<0, 1, 0>>,
                scale |-> 1, screen_height |-> 600, com_screen |-> <<-1, 3>>]]

\* the mapping with a fault seeded: the sign is not corrected for faces that
\* face away from the camera
calculate_push_pull_offset_uncorrected(view, face, screen_delta_x, screen_delta_y) ==
    LET cn == get_face_center_and_normal(face)
        right == Crossed(view.direction, view.up)
        wx == screen_delta_x * mm_per_pixel(view)
        wy == screen_delta_y * mm_per_pixel(view)
    IN Dot(<<right[1] * wx - view.up[1] * wy, right[2] * wx - view.up[2] * wy,
             right[3] * wx - view.up[3] * wy>>, cn.normal)

calculate_push_pull_offset(view, face, screen_delta_x, screen_delta_y) ==
    LET cn == get_face_center_and_normal(face)
        world_delta_x == screen_delta_x * mm_per_pixel(view)
        world_delta_y == screen_delta_y * mm_per_pixel(view)
        right == Crossed(view.direction, view.up)
        camera_space_delta ==
            <<right[1] * world_delta_x - view.up[1] * world_delta_y,
              right[2] * world_delta_x - view.up[2] * world_delta_y,
              right[3] * world_delta_x - view.up[3] * world_delta_y>>
        face_to_cam == <<view.eye[1] - cn.center[1], view.eye[2] - cn.center[2],
                         view.eye[3] - cn.center[3]>>
        facing_camera == Dot(cn.normal, face_to_cam)
        offset == Dot(camera_space_delta, cn.normal)
    IN IF facing_camera < 0 THEN -offset ELSE offset

\* the mapping with a fault seeded: equal distances give a fillet
calculate_fillet_chamfer_radius_ge(view, drag_start_x, drag_start_y, current_x, current_y) ==
    LET sq(a) == a * a
        dist_start == ISqrt((sq(drag_start_x - view.com_screen[1])
                             + sq(drag_start_y - view.com_screen[2])) * Unit * Unit)
        dist_current == ISqrt((sq(current_x - view.com_screen[1])
                               + sq(current_y - view.com_screen[2])) * Unit * Unit)
    IN [radius |-> (Abs(dist_current - dist_start) * mm_per_pixel(view)) \div Unit,
        operation_type |-> IF dist_current >= dist_start THEN "fillet" ELSE "chamfer"]

\* distances in 0.001 pixel
calculate_fillet_chamfer_radius(view, drag_start_x, drag_start_y, current_x, current_y) ==
    LET sq(a) == a * a
        dist_start == ISqrt((sq(drag_start_x - view.com_screen[1])
                             + sq(drag_start_y - view.com_screen[2])) * Unit * Unit)
        dist_current == ISqrt((sq(current_x - view.com_screen[1])
                               + sq(current_y - view.com_screen[2])) * Unit * Unit)
        distance_change_pixels == Abs(dist_current - dist_start)
    IN [radius |-> (distance_change_pixels * mm_per_pixel(view)) \div Unit,
        operation_type |-> IF dist_current > dist_start THEN "fillet" ELSE "chamfer"]

----------------------------------------------------------------------------
(* Previews (viewer.py) and InteractionHandler.on_mouse_move *)

\* the calls a successful preview build makes on the display, in order: the old
\* preview is erased and the new one shown without a redraw, then one redraw
show_preview(old_preview) ==
    (IF old_preview # NoPreview THEN <<"Erase(preview, False)">> ELSE <<>>)
    \o <<"DisplayShape(preview, update=False)", "UpdateCurrentViewer">>

\* the preview with a fault seeded: the prism is fused with the solid
update_push_pull_preview_fuses(v, c, offset, done) ==
    IF ~has_type(v.selected_shapes, TopAbs_FACE)
    THEN [viewer |-> v, context |-> c, operands |-> <<>>, kernel |-> <<>>, display |-> <<>>]
    ELSE [viewer |-> [v EXCEPT !.preview_shape_ais = [kind |-> "prism", value |-> offset]],
          context |-> [ErasePreview(c, v.preview_shape_ais) EXCEPT !.previews = @ + 1],
          operands |-> <<first_face(v.selected_shapes)>>,
          kernel |-> <<"surface_normal", "MakePrism", "Fuse">>,
          display |-> show_preview(v.preview_shape_ais)]

\* update_push_pull_preview; done: whether the prism builder reports IsDone
update_push_pull_preview(v, c, offset, done) ==
    IF ~has_type(v.selected_shapes, TopAbs_FACE)
    THEN [viewer |-> v, context |-> c, operands |-> <<>>, kernel |-> <<>>, display |-> <<>>]
    ELSE IF done
    THEN [viewer |-> [v EXCEPT !.preview_shape_ais = [kind |-> "prism", value |-> offset]],
          context |-> [ErasePreview(c, v.preview_shape_ais) EXCEPT !.previews = @ + 1],
          operands |-> <<first_face(v.selected_shapes)>>,
          kernel |-> <<"surface_normal", "MakePrism">>,
          display |-> show_preview(v.preview_shape_ais)]
    ELSE [viewer |-> v, context |-> c, operands |-> <<first_face(v.selected_shapes)>>,
          kernel |-> <<"surface_normal", "MakePrism">>,
          display |-> <<>>]

\* update_fillet_chamfer_preview; done: the builder built and reports IsDone
\* (a builder that raises is caught and shows nothing as well)
update_fillet_chamfer_preview(v, c, radius, operation_type, done) ==
    IF ~has_type(v.selected_shapes, TopAbs_EDGE)
    THEN [viewer |-> v, context |-> c, operands |-> <<>>, kernel |-> <<>>, display |-> <<>>]
    ELSE IF Abs(radius) < fillet_min
    THEN [viewer |-> v, context |-> c, operands |-> <<>>, kernel |-> <<>>, display |-> <<>>]
    ELSE IF done
    THEN [viewer |-> [v EXCEPT !.preview_shape_ais =
                                   [kind |-> operation_type, value |-> radius]],
          context |-> [ErasePreview(c, v.preview_shape_ais) EXCEPT !.previews = @ + 1],
          operands |-> builder_Add(radius, SelectSeq2(v.selected_shapes, TopAbs_EDGE)),
          kernel |-> <<IF operation_type = "fillet" THEN "MakeFillet" ELSE "MakeChamfer">>,
          display |-> show_preview(v.preview_shape_ais)]
    ELSE [viewer |-> v, context |-> c,
          operands |-> builder_Add(radius, SelectSeq2(v.selected_shapes, TopAbs_EDGE)),
          kernel |-> <<IF operation_type = "fillet" THEN "MakeFillet" ELSE "MakeChamfer">>,
          display |-> <<>>]

\* the vertical travel with a fault seeded: travel in either direction counts
vertical_travel_any_direction(i, x, y) ==
    IF Abs(i.drag_start_x - x) > Abs(i.drag_start_y - y)
    THEN Abs(i.drag_start_x - x) ELSE Abs(i.drag_start_y - y)

\* delta_y of on_mouse_move: the distance of the pointer from the anchor, in
\* pixels along the screen's vertical
vertical_travel(i, x, y) == Abs(i.drag_start_y - y)

\* the materiality test with a fault seeded: every tick regenerates
material_change_always(last, value, step) == TRUE

\* the test of a tick's parameter against the last one previewed
material_change(last, value, step) == last = NoOffset \/ Abs(value - last) > step

\* the calls on the display when a drag starts, n highlights being shown
start_drag_display(n) ==
    [k \in 1..n |-> "Erase(highlight, True)"] \o <<"ClearSelected(True)", "UpdateCurrentViewer">>

on_mouse_move(d, v, i, c, left, shift, x, y, done) ==
    LET starts == /\ ~i.is_dragging
                  /\ i.drag_start_y # NoPos
                  /\ Len(v.selected_shapes) > 0
                  /\ left /\ shift
                  /\ vertical_travel(i, x, y) > drag_threshold
        i1 == IF starts THEN [i EXCEPT !.is_dragging = TRUE] ELSE i
        v1 == IF starts THEN [v EXCEPT !.highlighted_ais_objects = <<>>] ELSE v
        c1 == IF starts THEN EraseHighlights(c, Len(v.highlighted_ais_objects)) ELSE c
        has_faces == has_type(v1.selected_shapes, TopAbs_FACE)
        has_edges == has_type(v1.selected_shapes, TopAbs_EDGE)
        d1 == IF starts THEN start_drag_display(Len(v.highlighted_ais_objects)) ELSE <<>>
        same == [viewer |-> v1, interaction |-> i1, context |-> c1, kernel |-> <<>>,
                 host |-> FALSE, display |-> d1]
    IN IF i1.is_dragging
       THEN IF has_faces
            THEN LET offset == calculate_push_pull_offset(View, first_face(v1.selected_shapes),
                                   x - i1.drag_start_x, y - i1.drag_start_y)
                 IN IF material_change(i1.last_preview_offset, offset,
                                       preview_step_push_pull)
                    THEN LET p == update_push_pull_preview(v1, c1, offset, done)
                         IN [viewer |-> p.viewer,
                             interaction |-> [i1 EXCEPT !.last_preview_offset = offset],
                             context |-> p.context,
                             kernel |-> <<"surface_normal">> \o p.kernel, host |-> FALSE,
                             display |-> d1 \o p.display]
                    ELSE [same EXCEPT !.kernel = <<"surface_normal">>]
            ELSE IF has_edges
            THEN IF d.cached_com = NoCom THEN same
                 ELSE LET m == calculate_fillet_chamfer_radius(View, i1.drag_start_x,
                                   i1.drag_start_y, x, y)
                      IN IF material_change(i1.last_preview_offset, m.radius,
                                            preview_step_fillet)
                         THEN LET p == update_fillet_chamfer_preview(v1, c1, m.radius,
                                            m.operation_type, done)
                              IN [viewer |-> p.viewer,
                                  interaction |-> [i1 EXCEPT !.last_preview_offset = m.radius],
                                  context |-> p.context, kernel |-> p.kernel, host |-> FALSE,
                                  display |-> d1 \o p.display]
                         ELSE same
            ELSE same
       ELSE [same EXCEPT !.host = TRUE]

----------------------------------------------------------------------------
(* Commit: geometry.offset_face and the viewer's finalize methods *)

\* the choice of the boolean with a fault seeded: material is always added
boolean_op_always_fuse(distance) == "Fuse"

\* the boolean offset_face applies to the solid and the prism
boolean_op(distance) == IF distance > 0 THEN "Fuse" ELSE "Cut"

\* what the kernel does in one offset_face call
OffsetOutcomes ==
    {"raise", "prism_not_done", "bool_not_done", "bool_null",
     "refine_timeout", "refine_raise", "refine_null", "refined"}

\* the refinement pass with a fault seeded: a null refined shape is returned
refine_keeps_null_shape(result, refined_result, outcome) ==
    IF outcome = "refine_timeout"
    THEN [shape |-> result, hung |-> FALSE,
          log |-> <<"WARNING: Refinement timeout (>5s), using unrefined result">>]
    ELSE IF outcome = "refine_raise"
    THEN [shape |-> result, hung |-> FALSE,
          log |-> <<"WARNING: Refinement error, using unrefined result">>]
    ELSE [shape |-> refined_result, hung |-> FALSE, log |-> <<>>]

\* the refinement pass with a fault seeded: the thread is joined without a timeout
refine_joins_without_timeout(result, refined_result, outcome) ==
    IF outcome = "refine_timeout"
    THEN [shape |-> result, hung |-> TRUE, log |-> <<>>]
    ELSE IF outcome = "refine_raise"
    THEN [shape |-> result, hung |-> FALSE,
          log |-> <<"WARNING: Refinement error, using unrefined result">>]
    ELSE IF outcome = "refine_null"
    THEN [shape |-> result, hung |-> FALSE,
          log |-> <<"WARNING: Refinement produced null shape, using unrefined result">>]
    ELSE [shape |-> refined_result, hung |-> FALSE, log |-> <<>>]

\* offset_face, from "Refine the result with timeout protection": the shape it
\* returns, the warning it prints, and whether the caller is left waiting.
\* "refine_timeout": the refinement thread is still alive when
\* join(timeout=5.0) returns, as it is when the refine operation never returns
refine_with_timeout(result, refined_result, outcome) ==
    IF outcome = "refine_timeout"
    THEN [shape |-> result, hung |-> FALSE,
          log |-> <<"WARNING: Refinement timeout (>5s), using unrefined result">>]
    ELSE IF outcome = "refine_raise"
    THEN [shape |-> result, hung |-> FALSE,
          log |-> <<"WARNING: Refinement error, using unrefined result">>]
    ELSE IF outcome = "refine_null"
    THEN [shape |-> result, hung |-> FALSE,
          log |-> <<"WARNING: Refinement produced null shape, using unrefined result">>]
    ELSE [shape |-> refined_result, hung |-> FALSE, log |-> <<>>]

\* nh, ng: names of the objects and geometries the call creates
\* (1: the history copy, 2: the boolean or fillet result, 3: the refined result);
\* log: the warnings it prints
offset_face(solid, face, distance, outcome, nh, ng) ==
    LET result == [h |-> nh[2], g |-> ng[2]]
        refined_result == [h |-> nh[3], g |-> ng[3]]
        bool_op == boolean_op(distance)
        failed(ks, lg) == [shape |-> solid, kernel |-> ks, log |-> lg, hung |-> FALSE]
    IN IF solid = NoShape
       THEN failed(<<>>, <<>>)
       ELSE IF Abs(distance) < push_pull_min
       THEN failed(<<>>, <<>>)
       ELSE IF outcome = "raise"
       THEN failed(<<"surface_normal">>, <<"EXCEPTION in offset_face">>)
       ELSE IF outcome = "prism_not_done"
       THEN failed(<<"surface_normal", "MakePrism">>, <<>>)
       ELSE IF outcome \in {"bool_not_done", "bool_null"}
       THEN failed(<<"surface_normal", "MakePrism", bool_op>>, <<>>)
       ELSE LET refined == refine_with_timeout(result, refined_result, outcome)
            IN [shape |-> refined.shape, log |-> refined.log, hung |-> refined.hung,
                kernel |-> <<"surface_normal", "MakePrism", bool_op, "UnifySameDomain">>]

\* the display objects a commit removes before the edit
ClearDisplayObjects(v, c) ==
    LET c1 == ErasePreview(c, v.preview_shape_ais)
        c2 == EraseHighlights(c1, Len(v.highlighted_ais_objects))
        c3 == IF v.ais_shape # NoShape.h THEN RemoveShape(c2, v.ais_shape) ELSE c2
    IN [viewer |-> [v EXCEPT !.preview_shape_ais = NoPreview,
                             !.highlighted_ais_objects = <<>>,
                             !.ais_shape = NoShape.h],
        context |-> c3]

\* the end of a commit with a fault seeded: original_shape is kept
ShowNewShape_keeps_original(d, v, c) ==
    [viewer |-> [v EXCEPT !.selected_shapes = <<>>, !.ais_shape = d.shape.h],
     context |-> DisplayAndActivate(RemoveAll(c), d.shape.h)]

\* the end of a commit: selection cleared, the context reset, the shape shown
ShowNewShape(d, v, c) ==
    [viewer |-> [v EXCEPT !.selected_shapes = <<>>, !.original_shape = NoShape,
                          !.ais_shape = d.shape.h],
     context |-> DisplayAndActivate(RemoveAll(c), d.shape.h)]

finalize_push_pull(d, v, c, offset, outcome, com_ok, nh, ng) ==
    IF ~has_type(v.selected_shapes, TopAbs_FACE)
    THEN [document |-> d, viewer |-> v, context |-> c, pushed |-> FALSE, raised |-> FALSE,
          hung |-> FALSE, log |-> <<>>,
          msgs |-> <<"ERROR: No face selected for push/pull">>,
          operands |-> <<>>, kernel |-> <<>>]
    ELSE LET selected_face == first_face(v.selected_shapes)
             d1 == save_to_history(d, nh[1])
             cleared == ClearDisplayObjects(v, c)
             shape_to_modify == IF v.original_shape # NoShape THEN v.original_shape
                                ELSE d.shape
             r == offset_face(shape_to_modify, selected_face, offset, outcome, nh, ng)
         IN IF r.hung
            THEN [document |-> d1, viewer |-> cleared.viewer, context |-> cleared.context,
                  pushed |-> TRUE, raised |-> FALSE, hung |-> TRUE, log |-> r.log,
                  msgs |-> <<"Computing push/pull geometry...">>,
                  operands |-> <<selected_face>>,
                  kernel |-> <<"Copy">> \o r.kernel]
            ELSE IF r.shape # NoShape
            THEN LET d2 == update_center_of_mass(set_shape(d1, r.shape), com_ok)
                     shown == ShowNewShape(d2, cleared.viewer, cleared.context)
                 IN [document |-> d2, viewer |-> shown.viewer, context |-> shown.context,
                     pushed |-> TRUE, raised |-> FALSE, hung |-> FALSE, log |-> r.log,
                     msgs |-> <<"Computing push/pull geometry...", "Push/pull complete",
                                "Ready - select a face, edge, or vertex">>,
                     operands |-> <<selected_face>>,
                     kernel |-> <<"Copy">> \o r.kernel \o <<"VolumeProperties">>]
            ELSE [document |-> d1, viewer |-> cleared.viewer, context |-> cleared.context,
                  pushed |-> TRUE, raised |-> FALSE, hung |-> FALSE, log |-> r.log,
                  msgs |-> <<"Computing push/pull geometry...",
                             "ERROR: offset_face returned None">>,
                  operands |-> <<selected_face>>,
                  kernel |-> <<"Copy">> \o r.kernel]

\* what the kernel does in one finalize_fillet_chamfer call
\* ("refine_hangs": refiner.Build() never returns)
FilletOutcomes ==
    {"raise", "not_done", "null", "refine_raise", "refine_hangs", "refine_null", "refined"}

finalize_fillet_chamfer(d, v, c, radius, operation_type, outcome, com_ok, nh, ng) ==
    LET builder == IF operation_type = "fillet" THEN "MakeFillet" ELSE "MakeChamfer"
        computing == "Computing " \o operation_type \o " geometry..."
        capitalized == IF operation_type = "fillet" THEN "Fillet" ELSE "Chamfer"
    IN IF ~has_type(v.selected_shapes, TopAbs_EDGE)
       THEN [document |-> d, viewer |-> v, context |-> c, pushed |-> FALSE, raised |-> FALSE,
             hung |-> FALSE, log |-> <<>>,
             msgs |-> <<"ERROR: No edges selected for fillet/chamfer">>,
             operands |-> <<>>, kernel |-> <<>>]
       ELSE IF Abs(radius) < fillet_min
       THEN [document |-> d, viewer |-> v, context |-> c, pushed |-> FALSE, raised |-> FALSE,
             hung |-> FALSE, log |-> <<>>,
             msgs |-> <<"Operation too small, ignoring">>,
             operands |-> <<>>, kernel |-> <<>>]
       ELSE LET d1 == save_to_history(d, nh[1])
                cleared == ClearDisplayObjects(v, c)
                result == [h |-> nh[2], g |-> ng[2]]
                refined_result == [h |-> nh[3], g |-> ng[3]]
                selected_edges == SelectSeq2(v.selected_shapes, TopAbs_EDGE)
                aborted(ms, ks) ==
                    [document |-> d1, viewer |-> cleared.viewer, context |-> cleared.context,
                     pushed |-> TRUE, raised |-> FALSE, hung |-> FALSE, log |-> <<>>,
                     msgs |-> <<computing>> \o ms,
                     operands |-> IF ks = <<>> THEN <<>>
                                  ELSE builder_Add(radius, selected_edges),
                     kernel |-> <<"Copy">> \o ks]
                done(new_shape, ks) ==
                    LET d2 == update_center_of_mass(set_shape(d1, new_shape), com_ok)
                        shown == ShowNewShape(d2, cleared.viewer, cleared.context)
                    IN [document |-> d2, viewer |-> shown.viewer, context |-> shown.context,
                        pushed |-> TRUE, raised |-> FALSE, hung |-> FALSE, log |-> <<>>,
                        msgs |-> <<computing, capitalized \o " complete",
                                   "Ready - select a face, edge, or vertex">>,
                        operands |-> builder_Add(radius, selected_edges),
                        kernel |-> <<"Copy">> \o ks \o <<"VolumeProperties">>]
            IN IF v.original_shape = NoShape
               \* self.shape: PliableViewer has no such attribute
               THEN [aborted(<<>>, <<>>) EXCEPT !.raised = TRUE]
               ELSE IF outcome = "raise"
               THEN aborted(<<"ERROR during " \o operation_type>>, <<builder>>)
               ELSE IF outcome = "not_done"
               THEN aborted(<<"ERROR: " \o operation_type \o " operation failed">>, <<builder>>)
               ELSE IF outcome = "null"
               THEN aborted(<<"ERROR: " \o operation_type \o " returned null shape">>, <<builder>>)
               ELSE IF outcome = "refine_raise"
               THEN aborted(<<"ERROR during " \o operation_type>>,
                            <<builder, "UnifySameDomain">>)
               ELSE IF outcome = "refine_hangs"
               THEN [aborted(<<>>, <<builder, "UnifySameDomain">>) EXCEPT !.hung = TRUE]
               ELSE IF outcome = "refine_null"
               THEN done(result, <<builder, "UnifySameDomain">>)
               ELSE done(refined_result, <<builder, "UnifySameDomain">>)

----------------------------------------------------------------------------
(* InteractionHandler.on_mouse_release, left button *)

\* the reset with a fault seeded: the anchor is kept
IdleInteraction_keeps_anchor(i) ==
    [i EXCEPT !.is_dragging = FALSE, !.last_preview_offset = NoOffset]

\* the reset with a fault seeded: the last preview parameter is kept
IdleInteraction_keeps_last_preview(i) ==
    [i EXCEPT !.is_dragging = FALSE, !.drag_start_x = NoPos, !.drag_start_y = NoPos]

\* the reset with a fault seeded: it is made for a drag only
IdleInteraction_after_drag(i) ==
    IF i.is_dragging
    THEN [i EXCEPT !.is_dragging = FALSE, !.drag_start_x = NoPos, !.drag_start_y = NoPos,
                   !.last_preview_offset = NoOffset]
    ELSE i

IdleInteraction(i) ==
    [i EXCEPT !.is_dragging = FALSE, !.drag_start_x = NoPos, !.drag_start_y = NoPos,
              !.last_preview_offset = NoOffset]

\* ok, value: the answer to QInputDialog.getDouble
on_mouse_release(d, v, i, c, x, y, ok, value, outcome, com_ok, nh, ng) ==
    LET has_faces == has_type(v.selected_shapes, TopAbs_FACE)
        has_edges == has_type(v.selected_shapes, TopAbs_EDGE)
        nothing == [document |-> d, viewer |-> v, context |-> c, pushed |-> FALSE,
                    raised |-> FALSE, hung |-> FALSE, log |-> <<>>, msgs |-> <<>>,
                    kernel |-> <<>>]
        r == IF ~i.is_dragging THEN nothing
             ELSE IF has_faces
             THEN IF ~ok
                  THEN [nothing EXCEPT !.msgs = <<"Push/pull cancelled">>,
                                       !.kernel = <<"surface_normal">>]
                  ELSE LET f == finalize_push_pull(d, v, c, value, outcome, com_ok, nh, ng)
                       IN [f EXCEPT !.kernel = <<"surface_normal">> \o @]
             ELSE IF has_edges
             THEN IF d.cached_com = NoCom THEN nothing
                  ELSE LET m == calculate_fillet_chamfer_radius(View, i.drag_start_x,
                                    i.drag_start_y, x, y)
                       IN IF ~ok
                          THEN [nothing EXCEPT !.msgs =
                                   <<(IF m.operation_type = "fillet" THEN "Fillet"
                                      ELSE "Chamfer") \o " cancelled">>]
                          ELSE finalize_fillet_chamfer(d, v, c, value, m.operation_type,
                                                       outcome, com_ok, nh, ng)
             ELSE nothing
        \* the return at "cached_com is None", or an exception out of the commit,
        \* leaves the handler before the reset and the host's handler; a commit
        \* that hangs never reaches them
        left_early ==
            /\ i.is_dragging
            /\ \/ ~has_faces /\ has_edges /\ (d.cached_com = NoCom \/ r.raised)
               \/ r.hung
    IN [document |-> r.document, viewer |-> r.viewer, context |-> r.context,
        interaction |-> IF left_early THEN i ELSE IdleInteraction(i),
        pushed |-> r.pushed, msgs |-> r.msgs, kernel |-> r.kernel, log |-> r.log,
        hung |-> r.hung, host |-> ~left_early]

----------------------------------------------------------------------------
(* PliableViewer.undo, redo, load_shape *)

\* the refresh with a fault seeded: the selection state is kept
refresh_display_keeps_selection(d, v, c, com_ok) ==
    [document |-> update_center_of_mass(d, com_ok),
     viewer |-> [v EXCEPT !.highlighted_ais_objects = <<>>,
                          !.preview_shape_ais = NoPreview,
                          !.ais_shape = d.shape.h],
     context |-> DisplayAndActivate(RemoveAll(c), d.shape.h)]

refresh_display(d, v, c, com_ok) ==
    [document |-> update_center_of_mass(d, com_ok),
     viewer |-> [v EXCEPT !.selected_shapes = <<>>, !.highlighted_ais_objects = <<>>,
                          !.original_shape = NoShape, !.preview_shape_ais = NoPreview,
                          !.ais_shape = d.shape.h],
     context |-> DisplayAndActivate(RemoveAll(c), d.shape.h)]

viewer_undo(d, v, c, com_ok, nh) ==
    LET u == undo(d, nh[1])
    IN IF u.ret
       THEN LET r == refresh_display(u.doc, v, c, com_ok)
            IN [document |-> r.document, viewer |-> r.viewer, context |-> r.context,
                ret |-> TRUE, msgs |-> <<"Undo complete">>,
                kernel |-> <<"Copy", "VolumeProperties">>]
       ELSE [document |-> u.doc, viewer |-> v, context |-> c, ret |-> FALSE,
             msgs |-> <<"Nothing to undo">>, kernel |-> <<>>]

viewer_redo(d, v, c, com_ok, nh) ==
    LET u == redo(d, nh[1])
    IN IF u.ret
       THEN LET r == refresh_display(u.doc, v, c, com_ok)
            IN [document |-> r.document, viewer |-> r.viewer, context |-> r.context,
                ret |-> TRUE, msgs |-> <<"Redo complete">>,
                kernel |-> <<"Copy", "VolumeProperties">>]
       ELSE [document |-> u.doc, viewer |-> v, context |-> c, ret |-> FALSE,
             msgs |-> <<"Nothing to redo">>, kernel |-> <<>>]

\* the load with a fault seeded: the history is cleared with the shape
load_shape_clears_history(d, v, c, shape, com_ok) ==
    LET r == refresh_display(clear_history(set_shape(d, shape)), v, c, com_ok)
    IN [document |-> r.document, viewer |-> r.viewer, context |-> r.context]

load_shape(d, v, c, shape, com_ok) ==
    LET d1 == set_shape(d, shape)
        r == refresh_display(d1, v, c, com_ok)
    IN [document |-> r.document, viewer |-> r.viewer, context |-> r.context]

----------------------------------------------------------------------------
(* Records kept for the properties *)

\* op: the handler; ret: what it returned; gesture, at, value, outcome: the
\* event, its position, the prompt's answer and the kernel's behaviour it ran
\* with; commit: the finalize method it called; pushed: that one called
\* save_to_history; msgs: the status messages shown; kernel: the kernel calls
\* made; prev: the Document call before this one (DocSpec); log: the warnings
\* printed; shape: which object the handler left as the Document's shape; ret is
\* "never" when the handler does not return; picks, additive: the shapes an
\* on_select call received and whether Ctrl was held; display: the calls a mouse
\* move made on the display; host: the event was passed on to the host's
\* handler; history: what the handler added to the undo stack; shift, view,
\* face: further inputs the call ran with
NoCall == [op |-> "init", ret |-> "None", gesture |-> "", at |-> <<>>, value |-> 0,
           outcome |-> "", commit |-> "", pushed |-> FALSE, msgs |-> <<>>,
           kernel |-> <<>>, prev |-> "", log |-> <<>>, shape |-> "",
           picks |-> <<>>, additive |-> FALSE, display |-> <<>>, host |-> FALSE,
           history |-> "", shift |-> FALSE, view |-> "", face |-> -1,
           operands |-> <<>>]

\* what a handler added to the undo stack, by the Document before and after it
WhichHistory(d_after, d_before, nh) ==
    IF d_after.undo_stack = d_before.undo_stack /\ d_after.redo_stack = d_before.redo_stack
    THEN "none"
    ELSE IF d_after.undo_stack
            = Append(d_before.undo_stack, [h |-> nh[1], g |-> d_before.shape.g])
    THEN "copy_of_pre_edit_shape"
    ELSE "other"

\* the Qt event loop runs one handler at a time: while one has not returned,
\* no other event is delivered
Responsive == call.ret # "never"

\* the Document's shape d_shape after a handler run with the new names nh,
\* against the shape before it
WhichShape(d_shape, old_shape, nh) ==
    IF d_shape.h = nh[3] THEN "refined_result"
    ELSE IF d_shape.h = nh[2] THEN "result"
    ELSE IF d_shape = old_shape THEN "unchanged"
    ELSE "other"

Bool(b) == IF b THEN "True" ELSE "False"

\* run_pre after a commit that pushed its snapshot of geometry g
RunCommit(rp, ru, g) ==
    LET a == Append(IF ru > 0 THEN <<>> ELSE rp, g)
    IN IF Len(a) > MaxRun THEN Tail(a) ELSE a

\* <<run_pre, run_undos>> after an undo call
RunUndo(rp, ru) == IF rp # <<>> /\ ru < Len(rp) THEN <<rp, ru + 1>> ELSE <<<<>>, 0>>

----------------------------------------------------------------------------
(* The viewer: state after PliableViewer.__init__, and its handlers *)

\* pixel positions <<x, y>> of the mouse events: where a gesture is anchored,
\* and where the cursor moves to and is released (3 px below the anchor, and
\* further)
PressPoints == {<<0, 0>>}
Points == {<<0, 0>>, <<0, 3>>, <<4, 4>>}

\* values the numeric prompt returns (2 decimals), in 0.001 mm
PushPullValues == {-5000, 0, 10}
RadiusValues == {490, 500}

Init ==
    /\ refinement = RefinementInit
    /\ \E com_ok \in BOOLEAN : document = update_center_of_mass(DocumentInit, com_ok)
    /\ viewer = ViewerInit
    /\ interaction = InteractionInit
    /\ context = ContextInit
    /\ left_down = FALSE
    /\ call = NoCall
    /\ before = NoVal
    /\ run_pre = <<>>
    /\ run_undos = 0

NewHandles == FreshNames(HandleRefs(document, viewer, context))
NewGeoms == FreshNames(GeomRefs(document, viewer, before, run_pre))

\* the state a handler leaves, under the names of Canon
Leaves(d, v, c, bf, rp) ==
    \E n \in {Canon(d, v, c, bf, rp)} :
       /\ document' = n.document
       /\ viewer' = n.viewer
       /\ context' = n.context
       /\ before' = n.before
       /\ run_pre' = n.run_pre

OnSelect ==
    /\ UNCHANGED refinement
    /\ Responsive
    /\ ~left_down
    /\ \E picks \in PickLists(context), ctrl_held \in BOOLEAN :
          \E r \in {on_select(document, viewer, context, picks, ctrl_held)} :
             /\ Len(r.viewer.selected_shapes) <= MaxSel
             /\ Leaves(document, r.viewer, r.context, before, run_pre)
             /\ call' = [NoCall EXCEPT !.op = "on_select", !.msgs = r.msgs,
                                       !.picks = picks, !.additive = ctrl_held]
    /\ UNCHANGED <<interaction, left_down, run_undos>>

\* button, modifier and position of a press, as far as the handler reads them
PressInputs ==
    [left : {TRUE}, shift : {TRUE}, p : PressPoints]
        \cup [left : BOOLEAN, shift : {FALSE}, p : {<<0, 0>>}]

MousePress ==
    /\ UNCHANGED refinement
    /\ Responsive
    /\ \E inp \in PressInputs :
          \E r \in {on_mouse_press(viewer, interaction, inp.left, inp.shift,
                                     inp.p[1], inp.p[2])} :
             /\ inp.left => ~left_down
             /\ interaction' = r.interaction
             /\ left_down' = (left_down \/ inp.left)
             /\ call' = [NoCall EXCEPT !.op = "on_mouse_press",
                                       !.gesture = IF inp.left /\ inp.shift
                                                   THEN "shift_left" ELSE "other",
                                       !.at = inp.p,
                                       !.msgs = r.msgs]
    /\ UNCHANGED <<document, viewer, context, before, run_pre, run_undos>>

\* modifier and position of a move and the preview build's outcome, as far as
\* the handler reads them
MoveInputs ==
    IF interaction.is_dragging
    THEN [shift : {TRUE}, p : Points, done : BOOLEAN]
    ELSE IF interaction.drag_start_y # NoPos /\ left_down
    THEN [shift : {TRUE}, p : Points, done : BOOLEAN]
             \cup [shift : {FALSE}, p : {<<0, 0>>}, done : {TRUE}]
    ELSE [shift : {FALSE}, p : {<<0, 0>>}, done : {TRUE}]

MouseMove ==
    /\ UNCHANGED refinement
    /\ Responsive
    /\ \E inp \in MoveInputs :
          \E r \in {on_mouse_move(document, viewer, interaction, context, left_down,
                                    inp.shift, inp.p[1], inp.p[2], inp.done)} :
             /\ viewer' = r.viewer
             /\ context' = r.context
             /\ interaction' = r.interaction
             /\ call' = [NoCall EXCEPT !.op = "on_mouse_move", !.kernel = r.kernel,
                                       !.gesture = IF r.host THEN "host" ELSE "drag",
                                       !.display = r.display, !.host = r.host]
    /\ UNCHANGED <<document, left_down, before, run_pre, run_undos>>

\* the release position, the prompt's answer and the kernel's outcomes, as far
\* as this release reads them
ReleaseInputs ==
    LET none == [p : {<<0, 0>>}, ok : {FALSE}, value : {0}, outcome : {"raise"},
                 com_ok : {TRUE}]
    IN IF ~interaction.is_dragging THEN none
       ELSE IF has_type(viewer.selected_shapes, TopAbs_FACE)
       THEN none
            \cup [p : {<<0, 0>>}, ok : {TRUE},
                  value : {x \in PushPullValues : Abs(x) < push_pull_min},
                  outcome : {"raise"}, com_ok : BOOLEAN]
            \cup [p : {<<0, 0>>}, ok : {TRUE},
                  value : {x \in PushPullValues : Abs(x) >= push_pull_min},
                  outcome : OffsetOutcomes, com_ok : BOOLEAN]
       ELSE IF has_type(viewer.selected_shapes, TopAbs_EDGE) /\ document.cached_com # NoCom
       THEN [p : Points, ok : {FALSE}, value : {0}, outcome : {"raise"}, com_ok : {TRUE}]
            \cup [p : Points, ok : {TRUE},
                  value : {x \in RadiusValues : Abs(x) < fillet_min},
                  outcome : {"raise"}, com_ok : {TRUE}]
            \cup [p : Points, ok : {TRUE},
                  value : {x \in RadiusValues : Abs(x) >= fillet_min},
                  outcome : FilletOutcomes \ {"refine_null", "refined"}, com_ok : {TRUE}]
            \cup [p : Points, ok : {TRUE},
                  value : {x \in RadiusValues : Abs(x) >= fillet_min},
                  outcome : {"refine_null", "refined"}, com_ok : BOOLEAN]
       ELSE none

\* a gesture is armed: anchored by a Shift+left press, not yet dragging
Armed == interaction.drag_start_y # NoPos /\ ~interaction.is_dragging

\* this release shows the numeric prompt
Prompted ==
    /\ interaction.is_dragging
    /\ \/ has_type(viewer.selected_shapes, TopAbs_FACE)
       \/ has_type(viewer.selected_shapes, TopAbs_EDGE) /\ document.cached_com # NoCom

MouseRelease ==
    /\ UNCHANGED refinement
    /\ Responsive
    /\ left_down
    /\ \E inp \in ReleaseInputs :
          \E r \in {on_mouse_release(document, viewer, interaction, context,
                        inp.p[1], inp.p[2],
                        inp.ok, inp.value, inp.outcome, inp.com_ok,
                        NewHandles, NewGeoms)} :
             /\ r.pushed => Len(document.undo_stack) + Len(document.redo_stack) < MaxDepth
             /\ Leaves(r.document, r.viewer, r.context, before, run_pre)
             /\ interaction' = r.interaction
             /\ call' = [NoCall EXCEPT !.op = "on_mouse_release",
                            !.gesture = IF ~interaction.is_dragging
                                        THEN (IF Armed THEN "short" ELSE "click")
                                        ELSE IF ~Prompted THEN "no_prompt"
                                        ELSE IF inp.ok THEN "accept" ELSE "cancel",
                            !.value = IF inp.ok THEN inp.value ELSE 0,
                            !.outcome = IF inp.ok THEN inp.outcome ELSE "",
                            !.commit = IF ~inp.ok THEN ""
                                       ELSE IF has_type(viewer.selected_shapes, TopAbs_FACE)
                                       THEN "push_pull" ELSE "fillet_chamfer",
                            !.pushed = r.pushed, !.msgs = r.msgs, !.kernel = r.kernel,
                            !.log = r.log,
                            !.ret = IF r.hung THEN "never" ELSE "None",
                            !.shape = WhichShape(r.document.shape, document.shape,
                                                 NewHandles),
                            !.host = r.host,
                            !.history = WhichHistory(r.document, document, NewHandles)]
    /\ left_down' = FALSE
    /\ UNCHANGED run_undos

Undo ==
    /\ UNCHANGED refinement
    /\ Responsive
    /\ \E com_ok \in BOOLEAN :
          \E r \in {viewer_undo(document, viewer, context, com_ok, NewHandles)} :
             /\ Leaves(r.document, r.viewer, r.context, before, run_pre)
             /\ call' = [NoCall EXCEPT !.op = "undo", !.ret = Bool(r.ret),
                                       !.msgs = r.msgs, !.kernel = r.kernel]
    /\ UNCHANGED <<interaction, left_down, run_undos>>

Redo ==
    /\ UNCHANGED refinement
    /\ Responsive
    /\ \E com_ok \in BOOLEAN :
          \E r \in {viewer_redo(document, viewer, context, com_ok, NewHandles)} :
             /\ Leaves(r.document, r.viewer, r.context, before, run_pre)
             /\ call' = [NoCall EXCEPT !.op = "redo", !.ret = Bool(r.ret),
                                       !.msgs = r.msgs, !.kernel = r.kernel]
    /\ UNCHANGED <<interaction, left_down, run_undos>>

\* window.open_file: a shape read from a file
LoadShape ==
    /\ UNCHANGED refinement
    /\ Responsive
    /\ \E com_ok \in BOOLEAN :
          \E r \in {load_shape(document, viewer, context,
                                 [h |-> NewHandles[1], g |-> NewGeoms[1]], com_ok)} :
             /\ Leaves(r.document, r.viewer, r.context, before, run_pre)
             /\ call' = [NoCall EXCEPT !.op = "load_shape",
                            !.history = WhichHistory(r.document, document, NewHandles),
                            !.shape = IF r.document.shape.h = NewHandles[1] THEN "loaded"
                                      ELSE "other"]
    /\ UNCHANGED <<interaction, left_down, run_undos>>

Next == OnSelect \/ MousePress \/ MouseMove \/ MouseRelease \/ Undo \/ Redo \/ LoadShape

Spec == Init /\ [][Next]_vars

----------------------------------------------------------------------------
(* The Document on its own: the calls the viewer makes on it, to any depth *)
(* of history                                                              *)

\* the Document calls of a commit that succeeds: save_to_history, set_shape
\* with the kernel's result, update_center_of_mass
commit(d, com_ok, nh, ng) ==
    update_center_of_mass(set_shape(save_to_history(d, nh[1]), [h |-> nh[2], g |-> ng[2]]),
                          com_ok)

DocCommit ==
    /\ UNCHANGED refinement
    /\ \E com_ok \in BOOLEAN :
          Leaves(commit(document, com_ok, NewHandles, NewGeoms), viewer, context,
                 Val(document), RunCommit(run_pre, run_undos, document.shape.g))
    /\ run_undos' = 0
    /\ call' = [NoCall EXCEPT !.op = "commit", !.pushed = TRUE, !.prev = call.op]
    /\ UNCHANGED <<interaction, left_down>>

DocUndo ==
    /\ UNCHANGED refinement
    /\ \E r \in {undo(document, NewHandles[1])} :
          /\ Leaves(r.doc, viewer, context, Val(document), RunUndo(run_pre, run_undos)[1])
          /\ call' = [NoCall EXCEPT !.op = "undo", !.ret = Bool(r.ret), !.prev = call.op]
    /\ run_undos' = RunUndo(run_pre, run_undos)[2]
    /\ UNCHANGED <<interaction, left_down>>

DocRedo ==
    /\ UNCHANGED refinement
    /\ \E r \in {redo(document, NewHandles[1])} :
          /\ Leaves(r.doc, viewer, context, Val(document), <<>>)
          /\ call' = [NoCall EXCEPT !.op = "redo", !.ret = Bool(r.ret), !.prev = call.op]
    /\ run_undos' = 0
    /\ UNCHANGED <<interaction, left_down>>

DocClearHistory ==
    /\ UNCHANGED refinement
    /\ Leaves(clear_history(document), viewer, context, Val(document), <<>>)
    /\ call' = [NoCall EXCEPT !.op = "clear_history", !.prev = call.op]
    /\ run_undos' = 0
    /\ UNCHANGED <<interaction, left_down>>

DocGetCenterOfMass ==
    /\ UNCHANGED refinement
    /\ \E com_ok \in BOOLEAN :
          Leaves(doc_get_center_of_mass(document, com_ok), viewer, context,
                 Val(document), <<>>)
    /\ call' = [NoCall EXCEPT !.op = "get_center_of_mass", !.prev = call.op]
    /\ run_undos' = 0
    /\ UNCHANGED <<interaction, left_down>>

NextDoc == DocCommit \/ DocUndo \/ DocRedo \/ DocClearHistory \/ DocGetCenterOfMass

DocSpec == Init /\ [][NextDoc]_vars

----------------------------------------------------------------------------
(* Properties of the Document and its history (DocSpec) *)

\* C1: Document.undo() on an empty UndoStack returns False and changes nothing
\* of the Document (shape, cached COM, both stacks); Document.redo() on an
\* empty RedoStack likewise.
C1_EmptyStackChangesNothing ==
    [][/\ (call'.op = "undo" /\ ~can_undo(document))
             => (call'.ret = "False" /\ document' = document)
       /\ (call'.op = "redo" /\ ~can_redo(document))
             => (call'.ret = "False" /\ document' = document)]_vars

\* an undo on an empty UndoStack has returned, the COM being cached
C1_EmptyUndoDone ==
    /\ call.op = "undo"
    /\ before.undo_stack = <<>>
    /\ call.ret = "False"
    /\ document.cached_com # NoCom

\* C2: immediately after a commit the RedoStack is empty, and redo() returns
\* False and leaves the Document as it is, whatever came before.
C2_CommitEmptiesRedo ==
    call.op = "commit"
        => /\ document.redo_stack = <<>>
           /\ ~redo(document, NewHandles[1]).ret
           /\ redo(document, NewHandles[1]).doc = document

\* a commit has run on a Document that had entries to redo
C2_CommitAfterUndoDone ==
    /\ call.op = "commit"
    /\ before.redo_stack # <<>>
    /\ before.undo_stack # <<>>

\* C3: the UndoStack never holds more than max_history entries; a save on a
\* full UndoStack evicts the oldest entry, keeps the others in their order and
\* puts the snapshot of the current shape on top.
C3_BoundedFifoHistory ==
    /\ Len(document.undo_stack) <= max_history
    /\ (call.op = "commit" /\ Len(before.undo_stack) = max_history)
          => Shapes(document.undo_stack, "g") = Tail(before.undo_stack) \o <<before.shape>>

\* a commit has saved to a full UndoStack
C3_SaveOnFullDone ==
    /\ call.op = "commit"
    /\ Len(before.undo_stack) = max_history
    /\ Len(document.undo_stack) = max_history

\* the shape current before the first of the last run_undos commits
ShapeBeforeRun == run_pre[Len(run_pre) - run_undos + 1]

\* C4 as stated: for every N, N commits followed by N undo calls restore the
\* shape that was current before the first of those commits.
C4_AnyRunRestored ==
    run_undos > 0 => document.shape.g = ShapeBeforeRun

\* C4 for runs the history can hold: for every N up to max_history, N commits
\* followed by N undo calls restore the shape that was current before the first
\* of those commits.
C4_RunUpToMaxHistoryRestored ==
    run_undos \in 1..max_history => document.shape.g = ShapeBeforeRun

\* max_history commits have been followed by max_history undo calls
C4_LongestRunDone ==
    /\ run_undos = max_history
    /\ Len(run_pre) >= max_history
    /\ call.op = "undo"

\* C5: whenever undo() succeeds, a redo() right after it succeeds and restores
\* the shape, UndoStack and RedoStack values that held before the undo; and
\* symmetrically for a redo() followed by undo().
C5_UndoRedoInverse ==
    /\ LET u == undo(document, NewHandles[1])
           r == redo(u.doc, NewHandles[2])
       IN u.ret => (r.ret /\ Val(r.doc) = Val(document))
    /\ LET r == redo(document, NewHandles[1])
           u == undo(r.doc, NewHandles[2])
       IN r.ret => (u.ret /\ Val(u.doc) = Val(document))

\* a redo has succeeded right after an undo that succeeded
C5_UndoThenRedoDone ==
    /\ call.op = "redo"
    /\ call.ret = "True"
    /\ call.prev = "undo"
    /\ before.redo_stack # <<>>
    /\ Len(document.undo_stack) > 1

----------------------------------------------------------------------------
(* Properties of the gestures and commits (Spec) *)

\* the kinds of sub-shape in a selection
Kinds(shapes) == {shapes[i].type : i \in DOMAIN shapes}

OnlyFacesOrOnlyEdges(shapes) ==
    Kinds(shapes) = {TopAbs_FACE} \/ Kinds(shapes) = {TopAbs_EDGE}

ShiftLeftPressed(c) == c.op = "on_mouse_press" /\ c.gesture = "shift_left"

\* C6: a Shift+left press sets the anchor, to the position of the press, if and
\* only if the selection is not empty and holds only faces or only edges;
\* otherwise it leaves the handler as it was.  An anchor is set by such a press
\* only, it is held without dragging only while the button is down, and only a
\* mouse move from a state with the anchor set enters the dragging state: so no
\* mouse move of a refused gesture enters it.
C6_ArmsIffFacesOrEdges ==
    /\ []((~interaction.is_dragging /\ interaction.drag_start_y # NoPos) => left_down)
    /\ [][/\ ShiftLeftPressed(call')
                => IF OnlyFacesOrOnlyEdges(viewer.selected_shapes)
                   THEN interaction' = [interaction EXCEPT !.drag_start_x = call'.at[1],
                                                           !.drag_start_y = call'.at[2]]
                   ELSE interaction' = interaction
          /\ (interaction.drag_start_y = NoPos /\ interaction'.drag_start_y # NoPos)
                => (ShiftLeftPressed(call') /\ OnlyFacesOrOnlyEdges(viewer.selected_shapes))
          /\ (~interaction.is_dragging /\ interaction'.is_dragging)
                => (call'.op = "on_mouse_move" /\ interaction.drag_start_y # NoPos)]_vars

\* a Shift+left press on a selection of edges only has set the anchor
C6_EdgeDragArmed ==
    /\ ShiftLeftPressed(call)
    /\ Kinds(viewer.selected_shapes) = {TopAbs_EDGE}
    /\ <<interaction.drag_start_x, interaction.drag_start_y>> = call.at
    /\ ~interaction.is_dragging

\* the message the claim gives a refused press
RefusalMessage(shapes) ==
    IF shapes = <<>> THEN "No selection - select a face or edge first"
    ELSE IF Cardinality(Kinds(shapes)) > 1
    THEN "Mixed selection - select only faces OR only edges"
    ELSE "Vertex operations not yet supported"

\* C7: a refused Shift+left press reports its reason: no selection, a selection
\* of more than one kind, a selection of vertices only, each by its own message
\* and never by a 'drag started' message.
C7_RefusalNamesReason ==
    (ShiftLeftPressed(call) /\ ~OnlyFacesOrOnlyEdges(viewer.selected_shapes))
        => call.msgs = <<RefusalMessage(viewer.selected_shapes)>>

\* the prompt's value was accepted and a commit ran
Committed(c) == c.op = "on_mouse_release" /\ c.gesture = "accept" /\ c.commit # ""

SubThreshold(c) ==
    \/ c.commit = "push_pull" /\ Abs(c.value) < push_pull_min
    \/ c.commit = "fillet_chamfer" /\ c.value < fillet_min

\* the kernel calls of the commit itself (the push/pull release first maps the
\* drag to an offset, reading the face's surface)
CommitKernel(c) == IF c.commit = "push_pull" THEN Tail(c.kernel) ELSE c.kernel

\* C8: a commit whose value is below the threshold makes no kernel call, pushes
\* no history entry and reports 'too small, ignoring', not success.
C8_SubThresholdIsNoOp ==
    (Committed(call) /\ SubThreshold(call))
        => /\ ~call.pushed
           /\ CommitKernel(call) = <<>>
           /\ call.msgs = <<"Operation too small, ignoring">>

\* the kernel's build reports failure or returns a null shape
BuildFailed(c) ==
    \/ c.commit = "push_pull" /\ c.outcome \in {"prism_not_done", "bool_not_done", "bool_null"}
    \/ c.commit = "fillet_chamfer" /\ c.outcome \in {"not_done", "null"}

\* C9: a commit aborted because the kernel's build failed or returned a null
\* shape leaves no history entry.
C9_AbortLeavesNoEntry ==
    (Committed(call) /\ ~SubThreshold(call) /\ BuildFailed(call)) => ~call.pushed

\* the viewport shows the Document's shape with vertex, edge and face picking
Displayed ==
    /\ viewer.ais_shape # NoShape.h
    /\ viewer.ais_shape = document.shape.h
    /\ viewer.ais_shape \in context.shapes
    /\ \A mode \in {1, 2, 4} : <<viewer.ais_shape, mode>> \in context.active

\* C10: after an aborted commit the viewport again shows the Document's shape
\* with its pick modes active; the shape is never left without a display handle.
C10_ShapeAlwaysDisplayed ==
    /\ viewer.ais_shape # NoShape.h
    /\ (Committed(call) /\ ~SubThreshold(call)
           /\ (BuildFailed(call) \/ call.outcome \in {"raise", "refine_raise"}))
          => Displayed

----------------------------------------------------------------------------
(* Properties of how a commit ends (Spec) *)

\* the status messages that frame a commit as failed
ErrorStatuses ==
    {"ERROR: No face selected for push/pull", "ERROR: offset_face returned None",
     "ERROR during push/pull", "ERROR: No edges selected for fillet/chamfer",
     "ERROR during fillet", "ERROR during chamfer",
     "ERROR: fillet operation failed", "ERROR: chamfer operation failed",
     "ERROR: fillet returned null shape", "ERROR: chamfer returned null shape"}

PushPullCommitted(c) == Committed(c) /\ c.commit = "push_pull" /\ ~SubThreshold(c)

\* C11: a push/pull commit whose prism build or boolean reports not-done, or
\* whose boolean yields a null shape, shows an error status and does not show
\* 'Push/pull complete'.
C11_BuildFailureIsError ==
    (PushPullCommitted(call) /\ BuildFailed(call))
        => /\ Range(call.msgs) \cap ErrorStatuses # {}
           /\ "Push/pull complete" \notin Range(call.msgs)

\* the boolean of a push/pull commit gave a valid result: the refinement ran
BooleanValid(c) ==
    c.outcome \in {"refine_timeout", "refine_raise", "refine_null", "refined"}

\* the commit is reported and shown as a success
CommitSucceeded ==
    /\ call.pushed
    /\ "Push/pull complete" \in Range(call.msgs)
    /\ Range(call.msgs) \cap ErrorStatuses = {}
    /\ Displayed

\* C12: in a push/pull commit whose boolean result is valid the Document's
\* shape is the refined shape exactly when the refinement finished in time,
\* raised nothing and gave a non-null shape; after a timeout, an exception or a
\* null refined shape it is the unrefined boolean result; the commit succeeds
\* in every one of these cases.
C12_RefinedIffWorkerSucceeded ==
    (PushPullCommitted(call) /\ BooleanValid(call))
        => /\ call.shape = "refined_result" <=> call.outcome = "refined"
           /\ call.outcome # "refined" => call.shape = "result"
           /\ CommitSucceeded

\* a push/pull whose refinement gave a null shape has committed the boolean result
C12_NullRefinementCommitted ==
    /\ PushPullCommitted(call)
    /\ call.outcome = "refine_null"
    /\ call.shape = "result"
    /\ document.undo_stack # <<>>

\* C13: a push/pull commit whose refine operation never returns (its thread is
\* still running when the wait ends) returns to the event loop, with the
\* Document's shape the unrefined boolean result and the handler idle, and the
\* degraded refinement is reported by the warning the program prints.
C13_RefineTimeoutStillCommits ==
    (PushPullCommitted(call) /\ call.outcome = "refine_timeout")
        => /\ Responsive
           /\ call.shape = "result"
           /\ ~interaction.is_dragging
           /\ call.log = <<"WARNING: Refinement timeout (>5s), using unrefined result">>

\* a push/pull whose refinement timed out has returned with a new shape shown
C13_TimedOutCommitDone ==
    /\ PushPullCommitted(call)
    /\ call.outcome = "refine_timeout"
    /\ call.ret = "None"
    /\ Len(document.undo_stack) = 1
    /\ document.shape.g # document.undo_stack[1].g
    /\ Displayed

FilletCommitted(c) == Committed(c) /\ c.commit = "fillet_chamfer" /\ ~SubThreshold(c)

\* C14: a fillet/chamfer commit whose refine operation never returns, or
\* raises, returns to the event loop with the Document's shape the unrefined
\* fillet/chamfer result.
C14_FilletRefineGuarded ==
    (FilletCommitted(call) /\ call.outcome \in {"refine_hangs", "refine_raise"})
        => /\ Responsive
           /\ call.shape = "result"

\* a fillet/chamfer commit is waiting for a refinement that never returns
C14_FilletCommitHung ==
    /\ FilletCommitted(call)
    /\ call.outcome = "refine_hangs"
    /\ ~Responsive
    /\ interaction.is_dragging

----------------------------------------------------------------------------
(* Properties of how a gesture ends (Spec) *)

PromptDismissed(c) == c.op = "on_mouse_release" /\ c.gesture = "cancel"

\* kernel calls that edit: everything but reading a face's surface for the offset
EditCalls(c) == {c.kernel[k] : k \in DOMAIN c.kernel} \ {"surface_normal"}

\* C15: a release whose numeric prompt is dismissed leaves the Document (shape,
\* cached COM, undo stack, redo stack) as it was, runs no kernel edit, and
\* leaves the handler idle: not dragging, anchor cleared.
C15_CancelMutatesNothing ==
    [][PromptDismissed(call')
          => /\ document' = document
             /\ ~call'.pushed
             /\ EditCalls(call') = {}
             /\ interaction' = InteractionInit]_vars

\* the prompt of a drag has been dismissed
C15_DragCancelled ==
    /\ PromptDismissed(call)
    /\ call.msgs \in {<<"Push/pull cancelled">>, <<"Fillet cancelled">>, <<"Chamfer cancelled">>}
    /\ viewer.selected_shapes # <<>>
    /\ ~interaction.is_dragging

\* C16: after every commit attempt that has returned (a success, a kernel
\* failure or a sub-threshold no-op) the selection is empty, the handler is
\* idle with the anchor cleared, and no preview handle is held.
C16_CommitEndsCleanedUp ==
    (Committed(call) /\ Responsive)
        => /\ viewer.selected_shapes = <<>>
           /\ interaction = InteractionInit
           /\ viewer.preview_shape_ais = NoPreview

\* a fillet/chamfer commit below the threshold has returned with the edge still
\* selected
C16_NoOpKeepsSelection ==
    /\ Committed(call)
    /\ call.commit = "fillet_chamfer"
    /\ SubThreshold(call)
    /\ call.msgs = <<"Operation too small, ignoring">>
    /\ has_type(viewer.selected_shapes, TopAbs_EDGE)
    /\ interaction = InteractionInit

\* C17: once the button is released and the prompt was accepted or dismissed,
\* no preview shape is displayed and preview_shape_ais is None.
C17_NoPreviewAfterGesture ==
    (call.op = "on_mouse_release" /\ call.gesture \in {"accept", "cancel"} /\ Responsive)
        => /\ viewer.preview_shape_ais = NoPreview
           /\ context.previews = 0

\* a dismissed prompt has left the preview of its drag displayed
C17_PreviewOutlivesCancel ==
    /\ PromptDismissed(call)
    /\ ~interaction.is_dragging
    /\ viewer.preview_shape_ais # NoPreview
    /\ context.previews = 1

----------------------------------------------------------------------------
(* Properties of the selection (Spec) *)

RECURSIVE AcceptedPicks(_)
\* the picked sub-shapes of kind Face, Edge or Vertex, in pick order
AcceptedPicks(picks) ==
    IF picks = <<>> THEN <<>>
    ELSE IF Head(picks).type \in {TopAbs_FACE, TopAbs_EDGE, TopAbs_VERTEX}
    THEN <<Head(picks)>> \o AcceptedPicks(Tail(picks))
    ELSE AcceptedPicks(Tail(picks))

\* an on_select call without Ctrl that accepted nothing
ClearingPick(c) == c.op = "on_select" /\ ~c.additive /\ AcceptedPicks(c.picks) = <<>>

\* C18: after a pick without Ctrl the selection is exactly the picked faces,
\* edges and vertices in pick order (empty when none is accepted); after a
\* pick with Ctrl it is the previous selection followed by them; sub-shapes of
\* another kind are never added; a second clearing pick changes nothing.
C18_PickSetsSelection ==
    [][call'.op = "on_select"
          => /\ viewer'.selected_shapes =
                   (IF call'.additive THEN viewer.selected_shapes ELSE <<>>)
                       \o AcceptedPicks(call'.picks)
             /\ \A k \in DOMAIN viewer'.selected_shapes :
                   viewer'.selected_shapes[k].type # TopAbs_SOLID
             /\ (ClearingPick(call) /\ ClearingPick(call'))
                   => (viewer' = viewer /\ context' = context)]_vars

\* a Ctrl pick of a solid and an edge has added the edge alone, after the face
\* selected before
C18_AdditivePickFiltered ==
    /\ call.op = "on_select"
    /\ call.additive
    /\ Len(call.picks) = 2
    /\ call.picks[1].type = TopAbs_SOLID
    /\ call.picks[2].type = TopAbs_EDGE
    /\ Len(viewer.selected_shapes) = 2
    /\ viewer.selected_shapes[1].type = TopAbs_FACE
    /\ viewer.selected_shapes[2] = call.picks[2]

\* C19: the selection never holds the same sub-shape twice.
C19_SelectionHasNoDuplicates ==
    \A j, k \in DOMAIN viewer.selected_shapes :
        j # k => viewer.selected_shapes[j] # viewer.selected_shapes[k]

\* a Ctrl pick of the sub-shape already selected has entered it a second time
C19_RepickedWithCtrl ==
    /\ call.op = "on_select"
    /\ call.additive
    /\ Len(call.picks) = 1
    /\ viewer.selected_shapes = <<call.picks[1], call.picks[1]>>

\* the last handler replaced the Document's current shape
ShapeReplaced(c) ==
    \/ c.op = "on_mouse_release" /\ c.shape \in {"result", "refined_result"}
    \/ c.op \in {"undo", "redo"} /\ c.ret = "True"
    \/ c.op = "load_shape"

\* C20: while the selection is not empty, original_shape is set and is the
\* Document's current shape, and every selected sub-shape belongs to it; every
\* handler that replaces the current shape leaves the selection empty; so the
\* shape a commit edits is the Document's current shape.
C20_SelectionRefersToCurrentShape ==
    /\ [](viewer.selected_shapes # <<>>
            => /\ viewer.original_shape # NoShape
               /\ viewer.original_shape = document.shape
               /\ \A k \in DOMAIN viewer.selected_shapes :
                     viewer.selected_shapes[k].of = document.shape.h)
    /\ [](ShapeReplaced(call) => viewer.selected_shapes = <<>>)
    /\ [][Committed(call') => viewer.original_shape = document.shape]_vars

\* a face of the shape restored by an undo is selected
C20_SelectedAfterUndo ==
    /\ call.op = "on_select"
    /\ viewer.selected_shapes # <<>>
    /\ document.redo_stack # <<>>
    /\ viewer.original_shape = document.shape

----------------------------------------------------------------------------
(* Drag gestures on their own: picks, presses, moves to more positions and  *)
(* releases whose prompt is cancelled                                       *)

\* where the cursor moves to: on the anchor, 3, 4 and 5 px below it, 1 px
\* beside that, and 9 px to the side of the anchor
DragPoints == {<<0, 0>>, <<0, 3>>, <<0, 4>>, <<0, 5>>, <<1, 4>>, <<9, 0>>}

DragMove ==
    /\ UNCHANGED refinement
    /\ Responsive
    /\ \E inp \in [shift : BOOLEAN, p : DragPoints, done : BOOLEAN] :
          \E r \in {on_mouse_move(document, viewer, interaction, context, left_down,
                                    inp.shift, inp.p[1], inp.p[2], inp.done)} :
             /\ viewer' = r.viewer
             /\ context' = r.context
             /\ interaction' = r.interaction
             /\ call' = [NoCall EXCEPT !.op = "on_mouse_move", !.kernel = r.kernel,
                                       !.gesture = IF r.host THEN "host" ELSE "drag",
                                       !.display = r.display, !.host = r.host,
                                       !.at = inp.p, !.shift = inp.shift]
    /\ UNCHANGED <<document, left_down, before, run_pre, run_undos>>

DragRelease ==
    /\ UNCHANGED refinement
    /\ Responsive
    /\ left_down
    /\ \E p \in DragPoints :
          \E r \in {on_mouse_release(document, viewer, interaction, context, p[1], p[2],
                                       FALSE, 0, "raise", TRUE, NewHandles, NewGeoms)} :
             /\ Leaves(r.document, r.viewer, r.context, before, run_pre)
             /\ interaction' = r.interaction
             /\ call' = [NoCall EXCEPT !.op = "on_mouse_release",
                            !.gesture = IF ~interaction.is_dragging
                                        THEN (IF Armed THEN "short" ELSE "click")
                                        ELSE IF ~Prompted THEN "no_prompt" ELSE "cancel",
                            !.pushed = r.pushed, !.msgs = r.msgs, !.kernel = r.kernel,
                            !.log = r.log,
                            !.shape = WhichShape(r.document.shape, document.shape,
                                                 NewHandles),
                            !.host = r.host,
                            !.history = WhichHistory(r.document, document, NewHandles)]
    /\ left_down' = FALSE
    /\ UNCHANGED run_undos

NextDrag == OnSelect \/ MousePress \/ DragMove \/ DragRelease

DragSpec == Init /\ [][NextDrag]_vars

----------------------------------------------------------------------------
(* Properties of drag ticks and previews (DragSpec, Spec) *)

\* the parameter on_mouse_move maps the pointer position p to, with the
\* selection and the anchor of the state: the push/pull offset for a face, the
\* fillet/chamfer radius otherwise
TickParameter(p) ==
    IF has_type(viewer.selected_shapes, TopAbs_FACE)
    THEN calculate_push_pull_offset(View, first_face(viewer.selected_shapes),
                                    p[1] - interaction.drag_start_x,
                                    p[2] - interaction.drag_start_y)
    ELSE calculate_fillet_chamfer_radius(View, interaction.drag_start_x,
                                         interaction.drag_start_y, p[1], p[2]).radius

TickStep ==
    IF has_type(viewer.selected_shapes, TopAbs_FACE) THEN preview_step_push_pull
    ELSE preview_step_fillet

\* the call built a preview shape
PreviewBuilt(c) ==
    \E k \in DOMAIN c.kernel : c.kernel[k] \in {"MakePrism", "MakeFillet", "MakeChamfer"}

C22_TickLeavesDocumentAlone ==
    [][(call'.op = "on_mouse_move" /\ interaction'.is_dragging)
       => /\ document'.shape = document.shape
          /\ document'.cached_com = document.cached_com
          /\ document'.undo_stack = document.undo_stack
          /\ document'.redo_stack = document.redo_stack
          /\ viewer'.selected_shapes = viewer.selected_shapes
          /\ \A k \in DOMAIN call'.kernel :
                call'.kernel[k] \notin {"Fuse", "Cut", "UnifySameDomain"}]_vars

\* a tick of a drag that built and showed a preview, the Document having history
C22_PreviewTickWithHistory ==
    /\ call.op = "on_mouse_move"
    /\ interaction.is_dragging
    /\ PreviewBuilt(call)
    /\ viewer.preview_shape_ais # NoPreview
    /\ Len(document.undo_stack) > 0

\* the call showed a new preview
PreviewShown(c) ==
    \E k \in DOMAIN c.display : c.display[k] = "DisplayShape(preview, update=False)"

\* the calls on the display that redraw the viewport
Redraws == {"UpdateCurrentViewer", "Erase(highlight, True)", "ClearSelected(True)"}

\* C23: at most one preview shape is displayed at any time; a regeneration
\* erases the previous preview before it shows the new one and redraws the
\* viewport exactly once; pick, commit, undo/redo and load never leave a second
\* preview displayed
C23_AtMostOnePreview ==
    /\ [](context.previews <= 1)
    /\ [][(call'.op = "on_mouse_move" /\ PreviewShown(call'))
          => LET ops == call'.display
                 n == Len(ops)
                 first == IF context.previews > 0 THEN n - 2 ELSE n - 1
             IN /\ first >= 1
                /\ SubSeq(ops, first, n)
                   = (IF context.previews > 0 THEN <<"Erase(preview, False)">> ELSE <<>>)
                     \o <<"DisplayShape(preview, update=False)", "UpdateCurrentViewer">>
                /\ Cardinality({k \in first..n : ops[k] \in Redraws}) = 1
                /\ Cardinality({k \in 1..n :
                                   ops[k] = "DisplayShape(preview, update=False)"}) = 1
                /\ context'.previews = 1]_vars

\* a tick of a drag that replaced the preview shown by a new one
C23_PreviewReplaced ==
    /\ call.op = "on_mouse_move"
    /\ PreviewShown(call)
    /\ \E k \in DOMAIN call.display : call.display[k] = "Erase(preview, False)"
    /\ context.previews = 1

\* C24: an armed gesture enters is_dragging only on a mouse move whose vertical
\* distance from the anchor exceeds 3 px while the left button and Shift are
\* held; a move of 3 px or less, or a purely horizontal one of any length, does
\* not enter it; on entry every selection highlight is erased and the selection
\* is retained
C24_DragStartsBeyondThreshold ==
    /\ [][(~interaction.is_dragging /\ interaction'.is_dragging)
          => /\ Armed
             /\ call'.op = "on_mouse_move"
             /\ Abs(call'.at[2] - interaction.drag_start_y) > drag_threshold
             /\ left_down /\ call'.shift
             /\ viewer'.highlighted_ais_objects = <<>>
             /\ context'.highlights = 0
             /\ viewer'.selected_shapes = viewer.selected_shapes
             /\ viewer'.selected_shapes # <<>>]_vars
    /\ [][(Armed /\ call'.op = "on_mouse_move")
          => (interaction'.is_dragging
                <=> /\ Abs(call'.at[2] - interaction.drag_start_y) > drag_threshold
                    /\ left_down /\ call'.shift)]_vars

\* the move that entered the drag, 4 px below the anchor, the selection kept
C24_DragEntered ==
    /\ call.op = "on_mouse_move"
    /\ interaction.is_dragging
    /\ \E k \in DOMAIN call.display : call.display[k] = "Erase(highlight, True)"
    /\ Abs(call.at[2] - interaction.drag_start_y) = drag_threshold + 1
    /\ viewer.selected_shapes # <<>>

\* a move 9 px to the side of the anchor, and one 3 px below it, with the left
\* button and Shift held, that left the gesture armed
C24_HorizontalMoveStaysArmed ==
    /\ call.op = "on_mouse_move"
    /\ Armed /\ left_down /\ call.shift
    /\ call.at = <<interaction.drag_start_x + 9, interaction.drag_start_y>>

C24_ThreePixelsStayArmed ==
    /\ call.op = "on_mouse_move"
    /\ Armed /\ left_down /\ call.shift
    /\ Abs(call.at[2] - interaction.drag_start_y) = drag_threshold

\* the release that ended an edge drag while the Document had no centre of mass
NoComEdgeRelease ==
    /\ call.op = "on_mouse_release"
    /\ call.gesture = "no_prompt"
    /\ has_type(viewer.selected_shapes, TopAbs_EDGE)
    /\ ~has_type(viewer.selected_shapes, TopAbs_FACE)
    /\ document.cached_com = NoCom

\* C25: when the cached centre of mass is None for an edge drag, preview and
\* commit are suppressed and the handler still returns to Idle: after the
\* release is_dragging is false, the anchor and the last preview parameter are
\* cleared, and the release was passed on to the host's handler
C25_NoComReleaseReturnsToIdle ==
    NoComEdgeRelease
    => /\ call.commit = "" /\ call.kernel = <<>>
       /\ viewer.preview_shape_ais = NoPreview
       /\ interaction = InteractionInit
       /\ call.host

\* the handler after that release: still dragging, the anchor kept, the host's
\* handler not called
C25_DragStuckAfterRelease ==
    /\ NoComEdgeRelease
    /\ interaction.is_dragging
    /\ interaction.drag_start_y # NoPos
    /\ ~left_down
    /\ ~call.host

\* how many times the call ran the boolean b
Booleans(c, b) == Cardinality({k \in DOMAIN c.kernel : c.kernel[k] = b})

\* C26: a push/pull commit with a positive offset applies the boolean fuse of
\* the solid and the prism, one with a negative offset applies the boolean cut;
\* never both, and neither when the offset is below 0.01 in absolute value
C26_FuseOutwardCutInward ==
    (Committed(call) /\ call.commit = "push_pull")
        => LET built == call.outcome \notin {"raise", "prism_not_done"}
           IN /\ Booleans(call, "Fuse") + Booleans(call, "Cut") <= 1
              /\ Abs(call.value) < push_pull_min
                 => Booleans(call, "Fuse") + Booleans(call, "Cut") = 0
              /\ (call.value >= push_pull_min /\ built)
                 => Booleans(call, "Fuse") = 1 /\ Booleans(call, "Cut") = 0
              /\ (call.value <= -push_pull_min /\ built)
                 => Booleans(call, "Cut") = 1 /\ Booleans(call, "Fuse") = 0
              /\ call.value > 0 => Booleans(call, "Cut") = 0
              /\ call.value < 0 => Booleans(call, "Fuse") = 0

\* a push/pull commit with a negative offset that cut the prism out of the solid
C26_InwardCommitCut ==
    /\ PushPullCommitted(call)
    /\ call.value < 0
    /\ Booleans(call, "Cut") = 1
    /\ call.shape = "refined_result"

\* a push/pull commit with a positive offset that fused the prism
C26_OutwardCommitFused ==
    /\ PushPullCommitted(call)
    /\ call.value > 0
    /\ Booleans(call, "Fuse") = 1

----------------------------------------------------------------------------
(* The drag-to-parameter mappings on their own: they are applied to a drag  *)
(* from one pixel to another, on a face of the cube, under one of the views *)

\* where the drag is anchored and where the pointer is
MapFrom == {<<0, 0>>, <<3, 2>>}
MapTo == DragPoints \cup {<<0, -5>>, <<4, 4>>}

MapInit ==
    /\ refinement = RefinementInit
    /\ \E com_ok \in BOOLEAN : document = update_center_of_mass(DocumentInit, com_ok)
    /\ viewer = ViewerInit
    /\ interaction = InteractionInit
    /\ context = ContextInit
    /\ left_down = FALSE
    /\ \E inp \in [view : DOMAIN Views, face : 0..5, from : MapFrom, to : MapTo] :
          call = [NoCall EXCEPT !.op = "inputs", !.view = inp.view, !.face = inp.face,
                                !.at = inp.from \o inp.to]
    /\ before = NoVal
    /\ run_pre = <<>>
    /\ run_undos = 0

MapFace(k) == [type |-> TopAbs_FACE, id |-> k, of |-> 0]

MapPushPull ==
    /\ UNCHANGED refinement
    /\ call.op = "inputs"
    /\ call' = [call EXCEPT !.op = "calculate_push_pull_offset",
                   !.value = calculate_push_pull_offset(Views[call.view], MapFace(call.face),
                                 call.at[3] - call.at[1], call.at[4] - call.at[2])]
    /\ UNCHANGED <<document, viewer, interaction, context, left_down, before, run_pre,
                   run_undos>>

MapFilletChamfer ==
    /\ UNCHANGED refinement
    /\ call.op = "inputs"
    /\ \E m \in {calculate_fillet_chamfer_radius(Views[call.view], call.at[1], call.at[2],
                                                  call.at[3], call.at[4])} :
          call' = [call EXCEPT !.op = "calculate_fillet_chamfer_radius",
                               !.value = m.radius, !.ret = m.operation_type]
    /\ UNCHANGED <<document, viewer, interaction, context, left_down, before, run_pre,
                   run_undos>>

NextMap == MapPushPull \/ MapFilletChamfer

MapSpec == MapInit /\ [][NextMap]_vars

\* the squared distance, in pixels, of the pixel <<x, y>> from the projected
\* centre of mass
SquaredDistance(view, x, y) ==
    (x - view.com_screen[1]) * (x - view.com_screen[1])
    + (y - view.com_screen[2]) * (y - view.com_screen[2])

\* C27: the fillet/chamfer mapping returns Fillet exactly when the current screen
\* distance to the projected centre of mass is strictly greater than the start
\* distance and Chamfer otherwise (equality included); the radius is the
\* absolute difference of the two distances times mmPerPixel, never negative
C27_FilletIffFartherFromCom ==
    call.op = "calculate_fillet_chamfer_radius"
    => LET view == Views[call.view]
           start == SquaredDistance(view, call.at[1], call.at[2])
           current == SquaredDistance(view, call.at[3], call.at[4])
           distStart == ISqrt(start * Unit * Unit)
           distCurrent == ISqrt(current * Unit * Unit)
       IN /\ call.ret \in {"fillet", "chamfer"}
          /\ call.ret = "fillet" <=> current > start
          /\ call.value >= 0
          /\ call.value = (Abs(distCurrent - distStart) * mm_per_pixel(view)) \div Unit
          /\ current = start => call.value = 0

\* the mapping applied to a pointer as far from the centre of mass as the anchor,
\* elsewhere on the screen: a chamfer of radius 0
C27_EqualDistanceIsChamfer ==
    /\ call.op = "calculate_fillet_chamfer_radius"
    /\ <<call.at[1], call.at[2]>> # <<call.at[3], call.at[4]>>
    /\ SquaredDistance(Views[call.view], call.at[1], call.at[2])
       = SquaredDistance(Views[call.view], call.at[3], call.at[4])
    /\ call.ret = "chamfer"
    /\ call.value = 0

\* the drag of the call as a vector in the world, in 0.001 mm:
\* right * (dx * mmPerPixel) - up * (dy * mmPerPixel)
WorldDelta(c) ==
    LET view == Views[c.view]
        right == Crossed(view.direction, view.up)
        dx == (c.at[3] - c.at[1]) * mm_per_pixel(view)
        dy == (c.at[4] - c.at[2]) * mm_per_pixel(view)
    IN <<right[1] * dx - view.up[1] * dy, right[2] * dx - view.up[2] * dy,
         right[3] * dx - view.up[3] * dy>>

\* normal . (eye - centroid) of face k under the view
Facing(view, k) ==
    LET cn == get_face_center_and_normal(MapFace(k))
    IN Dot(cn.normal, <<view.eye[1] - cn.center[1], view.eye[2] - cn.center[2],
                        view.eye[3] - cn.center[3]>>)

\* C28: the push/pull mapping returns the dot product of the world delta,
\* right * (dx * mmPerPixel) - up * (dy * mmPerPixel), with the face normal,
\* negated exactly when normal . (eye - centroid) < 0; a delta perpendicular to
\* the normal gives 0, and the face whose normal is flipped away from the camera
\* gives the same offset
C28_OffsetAlongNormalTowardsCamera ==
    call.op = "calculate_push_pull_offset"
    => LET view == Views[call.view]
           normal == get_face_center_and_normal(MapFace(call.face)).normal
           along == Dot(WorldDelta(call), normal)
       IN /\ call.value = IF Facing(view, call.face) < 0 THEN -along ELSE along
          /\ along = 0 => call.value = 0
          /\ \A k \in 0..5 :
                (/\ get_face_center_and_normal(MapFace(k)).normal
                    = <<-normal[1], -normal[2], -normal[3]>>
                 /\ Facing(view, call.face) > 0
                 /\ Facing(view, k) < 0)
                => calculate_push_pull_offset(view, MapFace(k), call.at[3] - call.at[1],
                                              call.at[4] - call.at[2]) = call.value

\* the mapping applied to a face that faces away from the camera, for a drag
\* along its normal: the offset is the negated dot product, equal to the one of
\* the opposite face
C28_FaceAwayFromCamera ==
    /\ call.op = "calculate_push_pull_offset"
    /\ Facing(Views[call.view], call.face) < 0
    /\ call.value # 0
    /\ call.value
       = -Dot(WorldDelta(call), get_face_center_and_normal(MapFace(call.face)).normal)

\* a drag perpendicular to the face normal, of non-zero length
C28_PerpendicularDrag ==
    /\ call.op = "calculate_push_pull_offset"
    /\ <<call.at[1], call.at[2]>> # <<call.at[3], call.at[4]>>
    /\ call.value = 0

----------------------------------------------------------------------------
(* Properties of the commit's result and of the cached centre of mass *)

\* the kernel gave the commit a valid boolean or fillet/chamfer result
ResultValid(c) ==
    IF c.commit = "push_pull" THEN BooleanValid(c)
    ELSE c.outcome \notin {"raise", "not_done", "null"}

\* the commit built a valid result and ran to its end
CommitSuccessful(c) ==
    /\ Committed(c) /\ ~SubThreshold(c) /\ ResultValid(c)
    /\ \E k \in DOMAIN c.msgs :
          c.msgs[k] \in {"Push/pull complete", "Fillet complete", "Chamfer complete"}

\* C29: after a successful commit the Document's shape is the new kernel result,
\* exactly one history entry, a copy of the pre-edit shape, was pushed, the only
\* displayed object is the new shape with the vertex, edge and face pick modes
\* active, the selection and original_shape are cleared, and the cached centre of
\* mass is not that of the pre-edit shape
C29_SuccessfulCommitInstallsResult ==
    CommitSuccessful(call)
    => /\ call.shape \in {"result", "refined_result"}
       /\ call.history = "copy_of_pre_edit_shape"
       /\ document.undo_stack # <<>>
       /\ document.shape.g # Last(document.undo_stack).g
       /\ context.shapes = {document.shape.h}
       /\ context.highlights = 0 /\ context.previews = 0
       /\ Displayed
       /\ viewer.selected_shapes = <<>>
       /\ viewer.original_shape = NoShape
       /\ viewer.highlighted_ais_objects = <<>>
       /\ viewer.preview_shape_ais = NoPreview
       /\ document.cached_com \in {NoCom, document.shape.g}
       /\ document.cached_com # Last(document.undo_stack).g

\* a fillet/chamfer commit that succeeded after its preview was shown, the centre
\* of mass of the new shape cached
C29_FilletCommitSucceeded ==
    /\ CommitSuccessful(call)
    /\ call.commit = "fillet_chamfer"
    /\ call.shape = "refined_result"
    /\ document.cached_com = document.shape.g

\* a push/pull commit that succeeded, the centre of mass not computed
C29_PushPullCommitSucceeded ==
    /\ CommitSuccessful(call)
    /\ call.commit = "push_pull"
    /\ document.cached_com = NoCom

\* C30: the cached centre of mass is never stale: in every reachable state
\* cached_com is None or the centre of mass of the Document's current shape
\* (set_shape, undo and redo reset it, get_center_of_mass computes it when it is
\* None)
C30_CachedComNeverStale ==
    document.cached_com \in {NoCom, get_center_of_mass(document.shape, TRUE)}

\* the centre of mass computed again on the first access after an undo
C30_ComRecomputedAfterUndo ==
    /\ call.op = "get_center_of_mass"
    /\ call.prev = "undo"
    /\ document.redo_stack # <<>>
    /\ document.cached_com = get_center_of_mass(document.shape, TRUE)
    /\ document.cached_com # Last(document.redo_stack).g

----------------------------------------------------------------------------
(* Properties of the history's snapshots and bounds (DocSpec, Spec) *)

\* the entries of both stacks, the undo stack first
HistoryEntries == document.undo_stack \o document.redo_stack

----------------------------------------------------------------------------
(* The refinement pass of offset_face with its threads: the interactive     *)
(* thread starts the worker, joins it for 5 s and looks at what it left;    *)
(* the worker runs on its own and may finish at any time, or never          *)

\* threads left running that the exploration follows, and the depth of history
MaxAbandoned == 2
MaxRefDepth == 2

\* what refiner.Build() and refiner.Shape() give the worker
WorkerOutcomes == {"shape", "null", "raise"}

\* the worker with a fault seeded: it refines the Document's shape in place
refine_thread_run_in_place(d, w, outcome, ng) ==
    [document |-> [d EXCEPT !.shape.g = ng[2]],
     worker |-> [state |-> "written", cell |-> "shape", exc |-> FALSE]]

\* the thread's target: it builds the refined shape from result and writes
\* refined_result[0] or exception_holder[0], cells that only this call of
\* offset_face reads; the Document is not within its reach
refine_thread_run(d, w, outcome, ng) ==
    [document |-> d,
     worker |-> IF outcome = "raise" THEN [state |-> "written", cell |-> "None", exc |-> TRUE]
                ELSE [state |-> "written", cell |-> outcome, exc |-> FALSE]]

\* refine_thread.is_alive()
is_alive(w) == w.state \in {"running", "written"}

\* what the interactive thread finds after the join
after_join(w) ==
    IF is_alive(w) THEN "refine_timeout"
    ELSE IF w.exc THEN "refine_raise"
    ELSE IF w.cell \in {"None", "null"} THEN "refine_null"
    ELSE "refined"

\* finalize_push_pull up to refine_thread.start(): the snapshot is pushed, the
\* prism and the boolean are built, the worker is started
RefStart ==
    /\ refinement.main = "idle"
    /\ Len(document.undo_stack) < MaxRefDepth
    /\ Len(refinement.abandoned) < MaxAbandoned
    /\ Leaves(save_to_history(document, NewHandles[1]), viewer, context, before, run_pre)
    /\ refinement' = [refinement EXCEPT !.main = "joining",
                                        !.worker = [NoWorker EXCEPT !.state = "running"],
                                        !.started = 1, !.joined = 0]
    /\ call' = [NoCall EXCEPT !.op = "refine_thread.start", !.pushed = TRUE]
    /\ UNCHANGED <<interaction, left_down, run_undos>>

\* the worker of the commit under way writes its cell
RefWorkerRun ==
    /\ refinement.worker.state = "running"
    /\ \E outcome \in WorkerOutcomes :
          \E r \in {refine_thread_run(document, refinement.worker, outcome, NewGeoms)} :
             /\ Leaves(r.document, viewer, context, before, run_pre)
             /\ refinement' = [refinement EXCEPT !.worker = r.worker]
    /\ call' = [NoCall EXCEPT !.op = "refine_thread"]
    /\ UNCHANGED <<interaction, left_down, run_undos>>

\* and ends
RefWorkerExit ==
    /\ refinement.worker.state = "written"
    /\ refinement' = [refinement EXCEPT !.worker.state = "dead"]
    /\ call' = [NoCall EXCEPT !.op = "refine_thread"]
    /\ UNCHANGED <<document, viewer, interaction, context, left_down, before, run_pre,
                   run_undos>>

\* refine_thread.join(timeout=5.0) returns: the worker has ended, or 5 s passed
RefJoin ==
    /\ refinement.main = "joining"
    /\ refinement' = [refinement EXCEPT !.main = "checking", !.joined = @ + 1]
    /\ call' = [NoCall EXCEPT !.op = "join"]
    /\ UNCHANGED <<document, viewer, interaction, context, left_down, before, run_pre,
                   run_undos>>

\* the rest of offset_face and of finalize_push_pull: the shape is chosen and
\* installed; a worker still alive is left running
RefReturn ==
    /\ refinement.main = "checking"
    /\ \E com_ok \in BOOLEAN :
          \E r \in {refine_with_timeout([h |-> NewHandles[2], g |-> NewGeoms[2]],
                                         [h |-> NewHandles[3], g |-> NewGeoms[3]],
                                         after_join(refinement.worker))} :
             /\ Leaves(update_center_of_mass(set_shape(document, r.shape), com_ok),
                       viewer, context, before, run_pre)
             /\ call' = [NoCall EXCEPT !.op = "offset_face",
                                       !.outcome = after_join(refinement.worker),
                                       !.log = r.log,
                                       !.shape = WhichShape(r.shape, document.shape,
                                                            NewHandles)]
    /\ refinement' = [refinement EXCEPT
                         !.main = "idle", !.worker = NoWorker,
                         !.abandoned = IF is_alive(refinement.worker)
                                       THEN Append(@, refinement.worker) ELSE @]
    /\ UNCHANGED <<interaction, left_down, run_undos>>

\* the sequence without its k-th element
Without(s, k) == [j \in 1..(Len(s) - 1) |-> IF j < k THEN s[j] ELSE s[j + 1]]

\* a worker left behind by an earlier commit writes its cell
RefAbandonedRun ==
    /\ \E k \in DOMAIN refinement.abandoned, outcome \in WorkerOutcomes :
          /\ refinement.abandoned[k].state = "running"
          /\ \E r \in {refine_thread_run(document, refinement.abandoned[k], outcome,
                                          NewGeoms)} :
                /\ Leaves(r.document, viewer, context, before, run_pre)
                /\ refinement' = [refinement EXCEPT !.abandoned[k] = r.worker]
    /\ call' = [NoCall EXCEPT !.op = "abandoned_thread"]
    /\ UNCHANGED <<interaction, left_down, run_undos>>

\* and ends
RefAbandonedExit ==
    /\ \E k \in DOMAIN refinement.abandoned :
          /\ refinement.abandoned[k].state = "written"
          /\ refinement' = [refinement EXCEPT !.abandoned = Without(@, k)]
    /\ call' = [NoCall EXCEPT !.op = "abandoned_thread"]
    /\ UNCHANGED <<document, viewer, interaction, context, left_down, before, run_pre,
                   run_undos>>

\* Document.undo, between commits
RefUndo ==
    /\ refinement.main = "idle"
    /\ \E r \in {undo(document, NewHandles[1])} :
          /\ r.ret
          /\ Leaves(r.doc, viewer, context, before, run_pre)
    /\ call' = [NoCall EXCEPT !.op = "undo", !.ret = "True"]
    /\ UNCHANGED <<interaction, left_down, run_undos, refinement>>

NextRefine ==
    \/ RefStart \/ RefWorkerRun \/ RefWorkerExit \/ RefJoin \/ RefReturn
    \/ RefAbandonedRun \/ RefAbandonedExit \/ RefUndo

RefineSpec == Init /\ [][NextRefine]_vars

\* a step of a refinement worker, of the commit under way or left behind
WorkerStep == call'.op \in {"refine_thread", "abandoned_thread"}

\* C32: each push/pull commit starts exactly one refinement worker and waits on
\* it once; if the wait times out (the worker is alive after the join) the
\* worker is left running and the unrefined result is committed; a worker that
\* finishes or fails at any later point, under every interleaving, never changes
\* the shape returned, the Document's current shape or the history; no commit
\* starts while the interactive thread is waiting on a worker
C32_RefinementWorkerIsolated ==
    /\ [](/\ refinement.main # "idle"
             => refinement.started = 1 /\ refinement.worker.state # "none"
          /\ refinement.main = "joining" => refinement.joined = 0
          /\ call.op = "offset_face"
             => /\ refinement.started = 1 /\ refinement.joined = 1
                /\ call.outcome = "refine_timeout"
                   => /\ call.shape = "result"
                      /\ refinement.abandoned # <<>>
                      /\ is_alive(Last(refinement.abandoned)))
    /\ [][WorkerStep => document' = document]_vars
    /\ [][refinement.main # "idle"
          => /\ call'.op \notin {"refine_thread.start", "undo"}
             /\ call'.op # "offset_face" => document' = document]_vars

\* a worker left behind after a timeout has finished with a refined shape while
\* a later commit waits on its own worker, the Document having history
C32_AbandonedWorkerFinishedLate ==
    /\ call.op = "abandoned_thread"
    /\ refinement.main = "joining"
    /\ \E k \in DOMAIN refinement.abandoned :
          refinement.abandoned[k].state = "written" /\ refinement.abandoned[k].cell = "shape"
    /\ Len(document.undo_stack) = 2

\* the worker had ended when the interactive thread looked at it: the refined
\* shape is returned
C32_FinishedBetweenJoinAndCheck ==
    /\ call.op = "offset_face"
    /\ call.outcome = "refined"
    /\ call.shape = "refined_result"

----------------------------------------------------------------------------
(* Properties of the status shown for a selection and of short gestures *)

\* the operation a status line advertises
Advertised(msgs) ==
    IF msgs = <<>> THEN "none"
    ELSE IF Last(msgs) \in {"Face selected - Shift+Drag to push/pull",
                            "faces selected - Shift+Drag to push/pull"}
    THEN "push_pull"
    ELSE IF Last(msgs) \in {"Edge selected - Shift+Drag for fillet/chamfer",
                            "edges selected - Shift+Drag for fillet/chamfer"}
    THEN "fillet_chamfer"
    ELSE "none"

\* the drag a Shift+left press armed
ArmedBy(msgs) ==
    IF msgs = <<"Push/pull drag started">> THEN "push_pull"
    ELSE IF msgs = <<"Fillet/chamfer drag started">> THEN "fillet_chamfer"
    ELSE "none"

\* C33: status reporting and gesture authorization classify the selection alike:
\* when the status shown after a pick advertises push/pull or fillet/chamfer, a
\* Shift+left press on that selection arms that drag, and when the press is
\* refused the status advertised no operation
C33_StatusMatchesAuthorization ==
    [][(call.op = "on_select" /\ ShiftLeftPressed(call'))
       => Advertised(call.msgs) = ArmedBy(call'.msgs)]_vars

\* a Shift+left press refused on an edge and a vertex, for which the status
\* line offers fillet/chamfer
C33_AdvertisedButRefused ==
    /\ ShiftLeftPressed(call)
    /\ Kinds(viewer.selected_shapes) = {TopAbs_EDGE, TopAbs_VERTEX}
    /\ Advertised(update_operation_status(viewer.selected_shapes)) = "fillet_chamfer"
    /\ ArmedBy(call.msgs) = "none"
    /\ interaction.drag_start_y = NoPos

\* a press on a single face after the status offered push/pull: the drag is armed
C33_AdvertisedAndArmed ==
    /\ ShiftLeftPressed(call)
    /\ Kinds(viewer.selected_shapes) = {TopAbs_FACE}
    /\ Advertised(update_operation_status(viewer.selected_shapes)) = "push_pull"
    /\ ArmedBy(call.msgs) = "push_pull"
    /\ interaction.drag_start_y # NoPos

\* C34: in every reachable state len(undo_stack) + len(redo_stack) is at most
\* max_history, so the redo stack is bounded as well; each of save_to_history,
\* undo and redo appends to exactly one of the two stacks (the commit to the
\* undo stack, emptying the redo stack; undo and redo to the opposite stack,
\* taking one entry off their own)
C34_HistoryBounded ==
    /\ [](Len(document.undo_stack) + Len(document.redo_stack) <= max_history)
    /\ [][call'.op = "commit"
          => /\ Len(document'.undo_stack)
                = (IF Len(document.undo_stack) = max_history THEN max_history
                   ELSE Len(document.undo_stack) + 1)
             /\ document'.redo_stack = <<>>]_vars
    /\ [][(call'.op = "undo" /\ call'.ret = "True")
          => /\ Len(document'.redo_stack) = Len(document.redo_stack) + 1
             /\ Len(document'.undo_stack) = Len(document.undo_stack) - 1]_vars
    /\ [][(call'.op = "redo" /\ call'.ret = "True")
          => /\ Len(document'.undo_stack) = Len(document.undo_stack) + 1
             /\ Len(document'.redo_stack) = Len(document.redo_stack) - 1]_vars

\* the redo stack at its longest: max_history undo calls after as many commits
C34_RedoStackFull ==
    /\ call.op = "undo" /\ call.ret = "True"
    /\ Len(document.redo_stack) = max_history
    /\ document.undo_stack = <<>>

\* C35: a Shift+left press on a valid selection followed by a release, the
\* vertical movement never having exceeded 3 px, shows no prompt, runs no commit
\* and leaves the Document, the history and the selection unchanged; the anchor
\* is cleared, so that a later mouse move without a new press cannot start a drag
C35_ShortGestureChangesNothing ==
    /\ [][(Armed /\ call'.op = "on_mouse_release")
          => /\ call'.gesture = "short"
             /\ call'.commit = "" /\ call'.kernel = <<>> /\ call'.msgs = <<>>
             /\ ~call'.pushed
             /\ document' = document
             /\ viewer'.selected_shapes = viewer.selected_shapes
             /\ interaction' = InteractionInit
             /\ call'.host]_vars
    /\ [][(call.op = "on_mouse_release" /\ call.gesture = "short"
           /\ call'.op = "on_mouse_move")
          => ~interaction'.is_dragging /\ call'.host]_vars

\* a mouse move right after the release of a gesture that never became a drag,
\* the Document having history: the handler is idle
C35_MoveAfterShortGesture ==
    /\ call.op = "on_mouse_move"
    /\ interaction = InteractionInit
    /\ viewer.selected_shapes # <<>>
    /\ document.undo_stack # <<>>
    /\ ~left_down

\* the release of a gesture that never became a drag
C35_ShortGestureReleased ==
    /\ call.op = "on_mouse_release" /\ call.gesture = "short"
    /\ interaction = InteractionInit
    /\ OnlyFacesOrOnlyEdges(viewer.selected_shapes)
    /\ document.undo_stack # <<>>

\* C36: load_shape replaces the current shape and clears the selection, the
\* highlights, the preview and original_shape, and leaves the undo stack and the
\* redo stack as they were: it pushes no history entry and does not clear the
\* redo stack, so that an undo or a redo after a load restores a snapshot taken
\* before the load
C36_LoadKeepsHistory ==
    /\ [][call'.op = "load_shape"
          => /\ call'.shape = "loaded"
             /\ call'.history = "none"
             /\ Len(document'.undo_stack) = Len(document.undo_stack)
             /\ Len(document'.redo_stack) = Len(document.redo_stack)
             /\ \A k \in DOMAIN HistoryEntries' : HistoryEntries'[k].g # document'.shape.g
             /\ viewer'.selected_shapes = <<>>
             /\ viewer'.highlighted_ais_objects = <<>>
             /\ viewer'.preview_shape_ais = NoPreview
             /\ viewer'.original_shape = NoShape
             /\ context'.highlights = 0 /\ context'.previews = 0
             /\ context'.shapes = {document'.shape.h}]_vars
    /\ [][(call.op = "load_shape" /\ document.undo_stack # <<>> /\ call'.op = "undo")
          => /\ call'.ret = "True"
             /\ document'.shape.g = Last(document.undo_stack).g
             /\ document'.shape.g # document.shape.g]_vars
    /\ [][(call.op = "load_shape" /\ document.redo_stack # <<>> /\ call'.op = "redo")
          => /\ call'.ret = "True"
             /\ document'.shape.g = Last(document.redo_stack).g
             /\ document'.shape.g # document.shape.g]_vars

\* a shape loaded while the redo stack held a snapshot, which is still there
C36_LoadedWithRedoHistory ==
    /\ call.op = "load_shape"
    /\ call.shape = "loaded"
    /\ document.redo_stack # <<>>

\* a shape loaded while the undo stack held a snapshot
C36_LoadedWithUndoHistory ==
    /\ call.op = "load_shape"
    /\ document.undo_stack # <<>>

----------------------------------------------------------------------------
(* Edits on a selection of several faces and edges: one on_select call, then
   the previews and the commit the mouse handlers ask the viewer for *)

\* sub-shapes are numbered 0..MaxPickId per type, and one on_select call
\* delivers at most MaxPicked of them
MaxPickId == 2
MaxPicked == 3

\* commits in one run: a commit that fails keeps the selection and can be repeated
MaxSelCommits == 2

SelPicked == [type : {TopAbs_FACE, TopAbs_EDGE}, id : 0..MaxPickId, of : {0}]

\* the lists on_select receives here: one to MaxPicked different sub-shapes
SelPickLists ==
    {picks \in UNION {[1..n -> SelPicked] : n \in 1..MaxPicked} :
        \A i, j \in DOMAIN picks : i # j => picks[i] # picks[j]}

SelOffsets == {2000}
SelRadii == {400, 1000}

SelSelect ==
    /\ UNCHANGED refinement
    /\ call.op = "init"
    /\ \E picks \in SelPickLists :
          \E r \in {on_select(document, viewer, context, picks, FALSE)} :
             /\ Leaves(document, r.viewer, r.context, before, run_pre)
             /\ call' = [NoCall EXCEPT !.op = "on_select", !.picks = picks, !.msgs = r.msgs]
    /\ UNCHANGED <<interaction, left_down, run_undos>>

\* on_mouse_move with a face in the selection: the push/pull preview
SelPushPullPreview ==
    /\ UNCHANGED refinement
    /\ has_type(viewer.selected_shapes, TopAbs_FACE)
    /\ \E offset \in SelOffsets, done \in BOOLEAN :
          \E r \in {update_push_pull_preview(viewer, context, offset, done)} :
             /\ Leaves(document, r.viewer, r.context, before, run_pre)
             /\ call' = [NoCall EXCEPT !.op = "update_push_pull_preview",
                            !.picks = viewer.selected_shapes, !.value = offset,
                            !.operands = r.operands, !.kernel = r.kernel,
                            !.display = r.display]
    /\ UNCHANGED <<interaction, left_down, run_undos>>

\* on_mouse_move with edges and no face in the selection: the fillet/chamfer preview
SelFilletChamferPreview ==
    /\ UNCHANGED refinement
    /\ ~has_type(viewer.selected_shapes, TopAbs_FACE)
    /\ has_type(viewer.selected_shapes, TopAbs_EDGE)
    /\ \E radius \in SelRadii, operation_type \in {"fillet", "chamfer"}, done \in BOOLEAN :
          \E r \in {update_fillet_chamfer_preview(viewer, context, radius, operation_type,
                                                  done)} :
             /\ Leaves(document, r.viewer, r.context, before, run_pre)
             /\ call' = [NoCall EXCEPT !.op = "update_fillet_chamfer_preview",
                            !.picks = viewer.selected_shapes, !.value = radius,
                            !.operands = r.operands, !.kernel = r.kernel,
                            !.display = r.display]
    /\ UNCHANGED <<interaction, left_down, run_undos>>

\* on_mouse_release with a face in the selection and the prompt accepted
SelPushPullCommit ==
    /\ UNCHANGED refinement
    /\ has_type(viewer.selected_shapes, TopAbs_FACE)
    /\ Len(document.undo_stack) < MaxSelCommits
    /\ \E offset \in SelOffsets, outcome \in {"refined", "bool_not_done", "raise"},
          com_ok \in BOOLEAN :
          \E r \in {finalize_push_pull(document, viewer, context, offset, outcome, com_ok,
                                       NewHandles, NewGeoms)} :
             /\ Leaves(r.document, r.viewer, r.context, before, run_pre)
             /\ call' = [NoCall EXCEPT !.op = "finalize_push_pull",
                            !.picks = viewer.selected_shapes, !.value = offset,
                            !.outcome = outcome, !.operands = r.operands,
                            !.kernel = r.kernel, !.msgs = r.msgs, !.pushed = r.pushed]
    /\ UNCHANGED <<interaction, left_down, run_undos>>

\* on_mouse_release with edges and no face in the selection and the prompt accepted
SelFilletChamferCommit ==
    /\ UNCHANGED refinement
    /\ ~has_type(viewer.selected_shapes, TopAbs_FACE)
    /\ has_type(viewer.selected_shapes, TopAbs_EDGE)
    /\ Len(document.undo_stack) < MaxSelCommits
    /\ \E radius \in SelRadii, operation_type \in {"fillet", "chamfer"},
          outcome \in {"refined", "not_done"}, com_ok \in BOOLEAN :
          \E r \in {finalize_fillet_chamfer(document, viewer, context, radius,
                                            operation_type, outcome, com_ok,
                                            NewHandles, NewGeoms)} :
             /\ Leaves(r.document, r.viewer, r.context, before, run_pre)
             /\ call' = [NoCall EXCEPT !.op = "finalize_fillet_chamfer",
                            !.picks = viewer.selected_shapes, !.value = radius,
                            !.outcome = outcome, !.operands = r.operands,
                            !.kernel = r.kernel, !.msgs = r.msgs, !.pushed = r.pushed]
    /\ UNCHANGED <<interaction, left_down, run_undos>>

NextSel ==
    \/ SelSelect
    \/ SelPushPullPreview
    \/ SelFilletChamferPreview
    \/ SelPushPullCommit
    \/ SelFilletChamferCommit

SelSpec == Init /\ [][NextSel]_vars

\* the positions of the shapes of type t in a selection
PositionsOf(shapes, t) == {k \in DOMAIN shapes : shapes[k].type = t}

\* the edit was handed the face selected first, and no other
OnFirstFaceOnly(shapes, operands) ==
    \E k \in PositionsOf(shapes, TopAbs_FACE) :
       /\ \A j \in PositionsOf(shapes, TopAbs_FACE) : k <= j
       /\ operands = <<shapes[k]>>

\* every selected edge was added once, in the order of selection, each with
\* the radius of the call
EveryEdgeSameRadius(shapes, operands, radius) ==
    /\ Len(operands) = Cardinality(PositionsOf(shapes, TopAbs_EDGE))
    /\ \A k \in PositionsOf(shapes, TopAbs_EDGE) :
          \E n \in DOMAIN operands : operands[n] = [radius |-> radius, edge |-> shapes[k]]
    /\ \A m, n \in DOMAIN operands : m # n => operands[m].edge # operands[n].edge

\* the status messages of a commit that installed a shape
ReportedComplete ==
    {"Push/pull complete", "Fillet complete", "Chamfer complete"}

\* C37: with several faces selected, a push/pull preview and commit work on the
\* face selected first only, and the commit then clears the whole selection; a
\* fillet/chamfer preview or commit adds every selected edge with the same
\* radius
C37_FirstFaceOrEveryEdge ==
    /\ [][call'.op \in {"update_push_pull_preview", "finalize_push_pull"}
          => OnFirstFaceOnly(viewer.selected_shapes, call'.operands)]_vars
    /\ [][(call'.op = "finalize_push_pull"
           /\ \E k \in DOMAIN call'.msgs : call'.msgs[k] \in ReportedComplete)
          => viewer'.selected_shapes = <<>>]_vars
    /\ [][(call'.op \in {"update_fillet_chamfer_preview", "finalize_fillet_chamfer"}
           /\ call'.kernel # <<>>)
          => EveryEdgeSameRadius(viewer.selected_shapes, call'.operands, call'.value)]_vars

\* a push/pull committed with three faces selected, the one selected first not
\* being the one of the lowest number, and the selection cleared
C37_SeveralFacesCommitted ==
    /\ call.op = "finalize_push_pull"
    /\ Cardinality(PositionsOf(call.picks, TopAbs_FACE)) = 3
    /\ call.picks[1].id > call.picks[2].id
    /\ call.operands = <<call.picks[1]>>
    /\ \E k \in DOMAIN call.msgs : call.msgs[k] \in ReportedComplete
    /\ viewer.selected_shapes = <<>>

\* a fillet committed on three selected edges
C37_SeveralEdgesCommitted ==
    /\ call.op = "finalize_fillet_chamfer"
    /\ Cardinality(PositionsOf(call.picks, TopAbs_EDGE)) = 3
    /\ Len(call.operands) = 3
    /\ \E k \in DOMAIN call.msgs : call.msgs[k] \in ReportedComplete

\* a push/pull previewed with an edge selected before two faces
C37_FacePreviewedAfterEdge ==
    /\ call.op = "update_push_pull_preview"
    /\ call.picks[1].type = TopAbs_EDGE
    /\ Cardinality(PositionsOf(call.picks, TopAbs_FACE)) = 2
    /\ call.operands = <<call.picks[2]>>

\* C38: in every reachable state of the interaction handler is_dragging implies
\* that both anchor coordinates drag_start_x and drag_start_y are set, and
\* last_preview_offset is set only while is_dragging; a left-button release
\* that runs to its end resets all three together
C38_DragStateConsistent ==
    /\ interaction.is_dragging
       => interaction.drag_start_x # NoPos /\ interaction.drag_start_y # NoPos
    /\ interaction.last_preview_offset # NoOffset => interaction.is_dragging
    /\ (call.op = "on_mouse_release" /\ call.host)
       => /\ ~interaction.is_dragging
          /\ interaction.drag_start_x = NoPos /\ interaction.drag_start_y = NoPos
          /\ interaction.last_preview_offset = NoOffset

\* the release of a drag ran to its end, its prompt answered, and the handler
\* holds none of the three
C38_DragReleased ==
    /\ call.op = "on_mouse_release"
    /\ call.host
    /\ call.gesture \in {"accept", "cancel"}
    /\ interaction = InteractionInit

\* a drag under way with the anchor and the last preview parameter set
C38_DraggingWithPreviewParameter ==
    /\ interaction.is_dragging
    /\ interaction.drag_start_x # NoPos /\ interaction.drag_start_y # NoPos
    /\ interaction.last_preview_offset # NoOffset

\* a release that left early: the drag and its anchor stay
C38_ReleaseLeftEarly ==
    /\ call.op = "on_mouse_release"
    /\ ~call.host
    /\ interaction.is_dragging
    /\ interaction.drag_start_x # NoPos

====
